---- MODULE Spec2Model ----
(***************************************************************************)
(* A model of the question-answering workflow of yangbingyibot:            *)
(* AnswerQuestionWorkflow.run and its step functions, the streaming        *)
(* throttle (onChunk), the GitHub error-report pipeline with its two-layer *)
(* deduplication, and the KV-backed cache and history.                     *)
(*                                                                         *)
(* Strings are modelled as sequences of pieces [src, len]: a piece is a    *)
(* run of `len` characters that come from `src`.  Concatenation merges     *)
(* neighbouring pieces of the same source, so equal strings have equal     *)
(* representations.                                                        *)
(***************************************************************************)
EXTENDS Integers, Sequences, FiniteSets, TLC

\* ------------------------------------------------------------------ bounds

\* parts the model stream delivers during one run, over all attempts of
\* step 3, at most: in the specification of step 3 alone, and in the
\* specification of the whole run
MaxChunks == 3
MaxRunChunks == 2
\* re-executions the substrate grants a step.do without a retries config
DefaultRetryLimit == 1
\* reports started in the specification of the report pipelines, at most
MaxReports == 4
\* the largest maxAttempts withRetry is called with on its own
MaxAttempts == 3
\* the oldest entry the store is followed to, in half freshness windows
MaxTicks == 3

\* ------------------------------------------------------- program constants

DISCORD_EDIT_INTERVAL_MS == 1500
MIN_CHUNK_SIZE == 50
THINKING_EDIT_INTERVAL_MS == 1000
THINKING_MIN_CHUNK_SIZE == 200
ERROR_REPORTED_TTL_SECONDS == 3600
CACHE_TTL_SECONDS == 300
\* step.do("streamGeminiAndEditDiscord", {retries: {limit: 2, ...}})
StepRetryLimit == 2
\* sendDiscordResponseStep: withRetry maxAttempts
SendMaxAttempts == 3
\* GeminiClient.RETRY_CONFIG.maxAttempts
GeminiMaxAttempts == 2

\* ------------------------------------------------------------------ strings

Piece(src, len) == [src |-> src, len |-> len]

\* the string of `len` characters from `src` ("" when len = 0)
Str(src, len) == IF len = 0 THEN <<>> ELSE <<Piece(src, len)>>

\* a + b
Cat(a, b) ==
    IF a = <<>> THEN b
    ELSE IF b = <<>> THEN a
    ELSE IF a[Len(a)].src = b[1].src
         THEN SubSeq(a, 1, Len(a) - 1)
              \o <<Piece(b[1].src, a[Len(a)].len + b[1].len)>>
              \o SubSeq(b, 2, Len(b))
         ELSE a \o b

RECURSIVE StrLen(_)
\* s.length
StrLen(s) == IF s = <<>> THEN 0 ELSE s[1].len + StrLen(Tail(s))

\* s contains characters from src
HasSrc(s, src) == \E i \in 1..Len(s) : s[i].src = src

\* text.trim() is empty: only whitespace, or nothing
IsBlank(s) == \A i \in 1..Len(s) : s[i].src = "space"

\* the user's question (event.payload.message)
Message == Str("message", 12)

\* s.trim(): a run of whitespace is one piece, so at most one piece goes at
\* either end
trimStart(s) == IF s # <<>> /\ s[1].src = "space" THEN Tail(s) ELSE s
trimEnd(s) ==
    IF s # <<>> /\ s[Len(s)].src = "space"
    THEN SubSeq(s, 1, Len(s) - 1) ELSE s
trim(s) == trimEnd(trimStart(s))

\* ------------------------------------------------------- message formats

\* the answer formatted as a thinking summary
formatContentAsThinking(question, text) ==
    Cat(Cat(Str("quote", 2), question),
        Cat(Str("newline", 1), Cat(Str("thought_balloon", 17), text)))

\* formatContent: `> ${question}\n${text}`
formatContent(question, text) ==
    Cat(Cat(Str("quote", 2), question), Cat(Str("newline", 1), text))

\* formatThinkingContent: `> ${question}\n:thought_balloon: ${summary}`
formatThinkingContent(question, summary) ==
    Cat(Cat(Str("quote", 2), question),
        Cat(Str("newline", 1), Cat(Str("thought_balloon", 17), summary)))

\* the failure message without the reason
formatErrorContentNoReason(question, errorMessage) ==
    Cat(Cat(Str("quote", 2), question),
        Cat(Str("newline", 1), Str("rotating_light", 28)))

\* sendDiscordResponseStep, errorMessage given:
\* `> ${question}\n:rotating_light: エラーが発生しました: ${errorMessage}`
formatErrorContent(question, errorMessage) ==
    Cat(Cat(Str("quote", 2), question),
        Cat(Str("newline", 1), Cat(Str("rotating_light", 28), errorMessage)))

THINKING_FALLBACK == Str("fallback", 6)

\* what the summarizer model can answer: a sentence, nothing, or an error
SummarizerOutcomes == {"text", "empty", "throw"}

\* the sentence the summarizer model gives for `thinkingText`
SummaryOf(thinkingText) ==
    <<[src |-> "summary", len |-> 20, of |-> thinkingText]>>

\* summarizeThinking that hands on what the summarizer gave
summarizeThinkingNoFallback(thinkingText, outcome) ==
    IF outcome = "text" THEN SummaryOf(thinkingText) ELSE <<>>

\* summarizeThinking: the trimmed model text, or the fallback phrase when the
\* text is empty or the call throws
summarizeThinking(thinkingText, outcome) ==
    IF outcome = "text" THEN SummaryOf(thinkingText) ELSE THINKING_FALLBACK

\* ------------------------------------------------------------ error texts

ErrQuota == Str("err_api_quota", 32)
ErrAuth == Str("err_api_auth", 17)
ErrRequest == Str("err_ai_api_request", 22)
ErrEmpty == Str("err_ai_empty_response", 21)
ErrSheet == Str("err_sheet_access", 30)
\* the substrate's error for a step that ran out of time
ErrTimeout == Str("err_step_timeout", 20)

\* what a Gemini API call can fail with (the words matched in the message)
GeminiErrors == {"quota", "network", "invalid", "other"}

\* GeminiClient.isRetryableError
isRetryableError(kind) == kind \in {"quota", "network"}

\* GeminiClient.handleGeminiError: the message of the error it throws
handleGeminiError(kind) ==
    IF kind = "quota" THEN ErrQuota
    ELSE IF kind = "invalid" THEN ErrAuth
    ELSE ErrRequest

\* GitHubIssueClient.generateFingerprint. In an error message the piece
\* "digits" is a run of the characters 0-9, "hexletters" a run of a-f or A-F
\* and "letters" a run of other word characters (g-z, G-Z, _); "uuid" is a
\* whole 8-4-4-4-12 group and "timestamp" a whole YYYY-MM-DDTHH:MM:SS with
\* the fraction and Z that follow it. Every other piece is text without
\* digits that has a non-word character at either end.
HexSrcs == {"digits", "hexletters"}

\* the piece has a word character at its ends: no \b between it and a run of
\* [0-9a-f] next to it
wordEdge(piece) == piece.src \in HexSrcs \cup {"letters", "timestamp"}

\* .replace(/[0-9a-f]{8}-[0-9a-f]{4}-[0-9a-f]{4}-[0-9a-f]{4}-[0-9a-f]{12}/gi, "<UUID>")
replaceUUID(s) ==
    [i \in 1..Len(s) |->
        IF s[i].src = "uuid" THEN Piece("<UUID>", 6) ELSE s[i]]

\* the last piece of the run of [0-9a-f] that position i is in
RECURSIVE runLast(_, _)
runLast(s, i) ==
    IF i < Len(s) /\ s[i + 1].src \in HexSrcs THEN runLast(s, i + 1) ELSE i

\* /\b[0-9a-f]{8,}\b/ matches the run of [0-9a-f] from piece i to piece j
hexMatch(s, i, j) ==
    /\ i = 1 \/ ~wordEdge(s[i - 1])
    /\ j = Len(s) \/ ~wordEdge(s[j + 1])
    /\ StrLen(SubSeq(s, i, j)) >= 8

\* .replace(/\b[0-9a-f]{8,}\b/gi, "<HEX>"), from piece i on
RECURSIVE replaceHEXFrom(_, _)
replaceHEXFrom(s, i) ==
    IF i > Len(s) THEN <<>>
    ELSE IF s[i].src \in HexSrcs
    THEN LET j == runLast(s, i)
         IN  (IF hexMatch(s, i, j) THEN <<Piece("<HEX>", 5)>>
              ELSE SubSeq(s, i, j)) \o replaceHEXFrom(s, j + 1)
    ELSE <<s[i]>> \o replaceHEXFrom(s, i + 1)

replaceHEX(s) == replaceHEXFrom(s, 1)

\* .replace(/\d{4}-\d{2}-\d{2}T\d{2}:\d{2}:\d{2}[.\dZ]*/g, "<TIMESTAMP>")
replaceTIMESTAMP(s) ==
    [i \in 1..Len(s) |->
        IF s[i].src = "timestamp" THEN Piece("<TIMESTAMP>", 11) ELSE s[i]]

\* .replace(/\d+/g, "<N>")
replaceN(s) ==
    [i \in 1..Len(s) |->
        IF s[i].src = "digits" THEN Piece("<N>", 3) ELSE s[i]]

generateFingerprint(errorMessage) ==
    replaceN(replaceTIMESTAMP(replaceHEX(replaceUUID(errorMessage))))

\* ------------------------------------------------------------- history

UserEntry(input) == [role |-> "user", text |-> Cat(Str("question_prefix", 4), input)]
ModelEntry(response) == [role |-> "model", text |-> response]

\* addToHistory that records the answer without the question
addToHistoryModelOnly(history, input, response) ==
    history \o <<ModelEntry(response)>>

\* GeminiClient.addToHistory
addToHistory(history, input, response) ==
    history \o <<UserEntry(input), ModelEntry(response)>>

\* a conversation persisted by an earlier run
OldHistory == <<UserEntry(Str("old_message", 5)), ModelEntry(Str("old_resp", 40))>>

\* what the reference source holds
SheetData == [sheetInfo |-> Str("sheet_csv", 100), description |-> Str("sheet_desc", 10)]

\* ----------------------------------------------- JSON and store entries

\* JSON values carry their type: a string, a number, null, an object (its
\* fields) or an array (its items)
JString(s) == [string |-> s]
JNumber(n) == [number |-> n]
JNull == [null |-> TRUE]
JObject(fields) == [object |-> fields]
JArray(items) == [array |-> items]

\* a stored text JSON.parse rejects
Unparseable == [unparseable |-> TRUE]

\* `typeof v === 'string'`
isString(v) == "string" \in DOMAIN v

\* `typeof v[k] === 'string'`: false also when v is no object or has no k
hasStringField(v, k) ==
    /\ "object" \in DOMAIN v
    /\ k \in DOMAIN v.object
    /\ isString(v.object[k])

\* saveHistory writing every field of an entry
storedHistoryWithExtras(history) ==
    JArray([i \in 1..Len(history) |->
               JObject([k \in DOMAIN history[i] |-> JString(history[i][k])])])

\* what KV.saveHistory puts under chat_history: JSON.stringify of the
\* entries mapped to {role, text}
storedHistory(history) ==
    JArray([i \in 1..Len(history) |->
               JObject([role |-> JString(history[i].role),
                        text |-> JString(history[i].text)])])

\* saveCache with its two arguments taken for each other
storedCacheSwapped(sheetInfo, description) ==
    JObject([sheetInfo |-> JString(description),
             description |-> JString(sheetInfo)])

\* what KV.saveCache puts under sheet_info
storedCache(sheetInfo, description) ==
    JObject([sheetInfo |-> JString(sheetInfo),
             description |-> JString(description)])

\* an entry of the store: the text put, the expirationTtl it was put with,
\* the seconds since the put, and in a 1-tuple what saveCache or saveHistory
\* was given (<<>> when the text was put by another writer)
KVEntry(text, ttl, age, written) ==
    [value |-> text, expirationTtl |-> ttl, age |-> age, written |-> written]

\* the entry a put of KV.saveCache / KV.saveHistory leaves
kvPut(text, written) == <<KVEntry(text, CACHE_TTL_SECONDS, 0, written)>>

\* kv.get: the text under a key, null (<<>>) when absent or expired
kvGet(entry) ==
    IF entry = <<>> THEN <<>>
    ELSE IF entry[1].age >= entry[1].expirationTtl THEN <<>>
    ELSE <<entry[1].value>>

\* the cache entry of the reference data as saveCache leaves it
CachedSheetData ==
    kvPut(storedCache(SheetData.sheetInfo, SheetData.description),
          <<SheetData>>)

\* ------------------------------------------------------------- withRetry

\* the delay without its cap
MinUncapped(a, b) == a

Min(a, b) == IF a <= b THEN a ELSE b

RECURSIVE Pow(_, _)
Pow(b, e) == IF e = 0 THEN 1 ELSE b * Pow(b, e - 1)

DEFAULT_RETRY_CONFIG ==
    [maxAttempts |-> 3, initialDelayMs |-> 1000, maxDelayMs |-> 10000,
     backoffMultiplier |-> 2]

\* what a call of fn can return
Values == {"ok", "value"}

\* a thrown value that is not an Error object
NonErrors == {"thrown_string"}

\* `error instanceof Error ? error : new Error(String(error))`
asError(thrown) ==
    IF thrown \in NonErrors THEN "Error(" \o thrown \o ")" ELSE thrown

\* the loop left only on the last attempt, whatever shouldRetry answers
stopRetryingOnLastOnly(attempt, maxAttempts, retryableError) ==
    attempt = maxAttempts - 1

\* `if (attempt === maxAttempts - 1 || !shouldRetry(lastError)) throw`
stopRetrying(attempt, maxAttempts, retryableError) ==
    attempt = maxAttempts - 1 \/ ~retryableError

RECURSIVE withRetryFrom(_, _, _, _, _)
\* the loop of withRetry from attempt index `attempt` on: outcomes[k] is what
\* the k-th call of fn does (the value it returns or the error it throws),
\* retryable the errors shouldRetry accepts, delays the sleeps made so far
withRetryFrom(outcomes, config, retryable, attempt, delays) ==
    IF attempt >= config.maxAttempts
    THEN [ok |-> FALSE, calls |-> attempt, value |-> "none",
          error |-> "Retry failed", delays |-> delays]
    ELSE IF outcomes[attempt + 1] \in Values
    THEN [ok |-> TRUE, calls |-> attempt + 1,
          value |-> outcomes[attempt + 1], error |-> "none",
          delays |-> delays]
    ELSE IF stopRetrying(attempt, config.maxAttempts,
                         asError(outcomes[attempt + 1]) \in retryable)
    THEN [ok |-> FALSE, calls |-> attempt + 1, value |-> "none",
          error |-> asError(outcomes[attempt + 1]), delays |-> delays]
    ELSE withRetryFrom(outcomes, config, retryable, attempt + 1,
            Append(delays,
                   Min(config.initialDelayMs
                         * Pow(config.backoffMultiplier, attempt),
                       config.maxDelayMs)))

withRetry(outcomes, config, retryable) ==
    withRetryFrom(outcomes, config, retryable, 0, <<>>)

\* GeminiClient.RETRY_CONFIG over the defaults
GeminiRetryConfig ==
    [DEFAULT_RETRY_CONFIG EXCEPT !.maxAttempts = GeminiMaxAttempts,
                                 !.initialDelayMs = 500,
                                 !.maxDelayMs = 2000]

\* sendDiscordResponseStep's config over the defaults
SendRetryConfig ==
    [DEFAULT_RETRY_CONFIG EXCEPT !.maxAttempts = SendMaxAttempts,
                                 !.initialDelayMs = 1000,
                                 !.backoffMultiplier = 2]

\* ------------------------------------------------------------------ state

VARIABLES
    \* AnswerQuestionWorkflow.run
    pc,               \* where run() is
    stepTries,        \* failed executions of the current step's body
    sheetData,        \* output of step 1, <<>> before
    historyOutput,    \* output of step 2 (its history array), shared with
                      \* the GeminiClient of every attempt of step 3
    streamResult,     \* output of step 3, <<>> before
    errorMessage,     \* the error run() caught, <<>> when none
    trace,            \* the step events of the run, in order
    \* the key-value store and the issue tracker
    kvCache,          \* value under sheet_info, <<>> when absent
    kvHistory,        \* value under chat_history, <<>> when absent
    kvReported,       \* fingerprints f with a live key error_reported:f
    issues,           \* fingerprints with an open auto-reported issue
    githubToken,      \* env.GITHUB_TOKEN is set
    \* a library function called on its own
    call,             \* the call made: its name and arguments, <<>> when none
    ret,              \* what the call returned or threw, <<>> when none
    \* runs of the workflow side by side
    runs,             \* of each run: where it is, what it loaded and saved
    \* streamGeminiWithDiscordEditsStep, one attempt
    now,              \* the clock (Date.now())
    lastEditTime,
    lastThinkingEditLength,
    lastResponseEditLength,
    editCount,
    currentPhase,
    accumulatedThinking,
    fullText,         \* askStream's fullText
    chunks,           \* chunks received so far in this run
    \* the sink
    edit,             \* the edit the last chunk or the stream end issued,
                      \* <<>> when it issued none
    posted,           \* the messages sendDiscordResponseStep was run with,
                      \* and whether a POST of each was accepted
    \* the report pipelines
    rpc,              \* reporter -> where its pipeline is
    rfp,              \* reporter -> fingerprint of its report
    rlog,             \* reporter -> what its current report has done
    rcount,           \* reporter -> reports started
    \* what the run has done
    obs,
    faults            \* in steps 1 to 4, a call to the store, to the reference
                      \* source or to the model has failed, or a step has
                      \* timed out (a failed edit is not recorded)

runVars == <<pc, stepTries, sheetData, historyOutput, streamResult,
             errorMessage, trace>>
storeVars == <<kvCache, kvHistory>>
envVars == <<githubToken, call, ret, runs>>
trackerVars == <<kvReported, issues, envVars>>
streamVars == <<now, lastEditTime, lastThinkingEditLength,
                lastResponseEditLength, editCount, currentPhase,
                accumulatedThinking, fullText, chunks, edit>>
reportVars == <<rpc, rfp, rlog, rcount>>
sinkVars == <<posted>>
vars == <<runVars, storeVars, trackerVars, streamVars, sinkVars,
          reportVars, obs, faults>>

\* the reporters: the catch block of two runs, and the health check
Reporters == {"run", "run2", "health"}

\* hit: the key was found; searches, creates, puts: calls made; searchErr: the
\* search failed; dup: isDuplicate answered true; created: the issue was
\* created; ttl: the expirationTtl of the last put
NoLog ==
    [hit |-> FALSE, searches |-> 0, searchErr |-> FALSE, dup |-> FALSE,
     creates |-> 0, created |-> FALSE, puts |-> 0, ttl |-> 0]

\* fetches, cacheWrites, saves, saveFailures, reports, errSteps, posts and
\* postAttempts count over the run; loaded is what step 2 read; streamOpens,
\* edits, finalEdits and completed tell of the latest attempt of step 3
\* (completed: its stream was read to the end)
NoObs ==
    [fetches |-> 0, cacheWrites |-> 0, cacheWriteFailures |-> 0,
     loaded |-> <<>>, streamOpens |-> 0,
     edits |-> 0, finalEdits |-> 0, completed |-> FALSE, saves |-> 0,
     saveFailures |-> 0, reports |-> 0, errSteps |-> 0, posts |-> 0,
     postAttempts |-> 0, shown |-> "nothing", responseSeen |-> FALSE,
     forcedEdits |-> 0, gateEditAt |-> -1]

\* what the message shows once the edit with `content` is applied: a
\* thinking summary behind the thinking marker, or response text
shownBy(content) ==
    IF HasSrc(content, "thought_balloon") THEN "thinking" ELSE "response"

\* editOriginalMessage(content) answered `success`: what the message shows
afterEdit(success, shown, content) ==
    IF success THEN shownBy(content) ELSE shown

\* the clock when an attempt of step 3 starts, in ms after the instant the
\* attempt's lastEditTime = 0 stands for: later than any edit interval
StartTime == DISCORD_EDIT_INTERVAL_MS + THINKING_EDIT_INTERVAL_MS

Bump(field) == [obs EXCEPT ![field] = @ + 1]

\* the runs followed side by side, and the message each is asked
RunIds == {"A", "B"}
MessageOf(r) == IF r = "A" THEN Message ELSE Str("message_b", 7)
ResponseOf(r) == IF r = "A" THEN Str("response", 50) ELSE Str("response_b", 60)

\* a run not yet created; `savesSeen` is the number of saves of chat_history
\* that had gone through when the run loaded it, `saveIndex` the rank of its
\* own put among them (0 when it made none); `cache` is what its cache read
\* returned, `fetches` and `cacheWrites` count its calls of getSheetData and
\* of saveCache; `message` is params.message, and `acked` tells that the
\* request that created the run has its response
NoRun ==
    [pc |-> "idle", history |-> <<>>, updatedHistory |-> <<>>,
     savesSeen |-> 0, saveIndex |-> 0, cache |-> <<>>, fetches |-> 0,
     cacheWrites |-> 0, message |-> <<>>, acked |-> FALSE]

Event(step, ev) == <<step, ev>>

\* the locals of step 3 before its body first runs
StreamLocalsInit ==
    /\ now = StartTime
    /\ lastEditTime = 0
    /\ lastThinkingEditLength = 0
    /\ lastResponseEditLength = 0
    /\ editCount = 0
    /\ currentPhase = "thinking"
    /\ accumulatedThinking = <<>>
    /\ fullText = <<>>
    /\ edit = <<>>

\* no report is in progress
ReportersInit ==
    /\ rpc = [r \in Reporters |-> "idle"]
    /\ rfp = [r \in Reporters |-> <<>>]
    /\ rlog = [r \in Reporters |-> NoLog]
    /\ rcount = [r \in Reporters |-> 0]

\* state of the run and of the stream when run() is entered
RunInit ==
    /\ stepTries = 0
    /\ sheetData = <<>>
    /\ historyOutput = <<>>
    /\ streamResult = <<>>
    /\ errorMessage = <<>>
    /\ trace = <<>>
    /\ StreamLocalsInit
    /\ chunks = 0
    /\ posted = <<>>
    /\ ReportersInit
    /\ obs = NoObs
    /\ faults = FALSE
    /\ call = <<>>
    /\ ret = <<>>
    /\ runs = [r \in RunIds |-> NoRun]

Init ==
    /\ pc = "getSheetData"
    /\ RunInit
    /\ kvCache \in {<<>>, CachedSheetData}
    /\ kvHistory \in {<<>>, kvPut(storedHistory(OldHistory), <<OldHistory>>)}
    /\ kvReported = {}
    /\ issues = {}
    /\ githubToken \in BOOLEAN

\* --------------------------------------------------------------- the store

ErrSaveCache == "Failed to save cache data"
ErrSaveConversation == "Failed to save conversation history"

\* the check of getCache that takes any object
validCacheAnyObject(cachedData) == "object" \in DOMAIN cachedData

\* the check of getCache: an object with string sheetInfo and description
validCache(cachedData) ==
    /\ hasStringField(cachedData, "sheetInfo")
    /\ hasStringField(cachedData, "description")

\* the object JSON.parse hands out for a JSON object
parsedObject(v) ==
    [k \in DOMAIN v.object |->
        IF isString(v.object[k]) THEN v.object[k].string ELSE v.object[k]]

\* KV.getCache: the stored entry, null (<<>>) when the key is absent or
\* expired, when the text does not parse, when the value is not an object
\* with two string fields, and when the read fails
getCache(readOk) ==
    IF ~readOk THEN <<>>
    ELSE LET cachedData == kvGet(kvCache) IN
         IF cachedData = <<>> THEN <<>>
         ELSE IF cachedData[1] = Unparseable THEN <<>>
         ELSE IF cachedData[1] = JNull THEN <<>>
         ELSE IF ~validCache(cachedData[1]) THEN <<>>
         ELSE <<parsedObject(cachedData[1])>>

\* the filter of getHistory: an object with string role and text
validEntry(h) == hasStringField(h, "role") /\ hasStringField(h, "text")

\* KV.getHistory: the valid stored entries as {role, text}, in their order;
\* [] when the key is absent or expired, when the text does not parse or is
\* no array, and when the read fails
getHistory(readOk) ==
    IF ~readOk THEN <<>>
    ELSE LET historyStr == kvGet(kvHistory) IN
         IF historyStr = <<>> THEN <<>>
         ELSE IF historyStr[1] = Unparseable THEN <<>>
         ELSE IF "array" \notin DOMAIN historyStr[1] THEN <<>>
         ELSE LET kept == SelectSeq(historyStr[1].array, validEntry) IN
              [i \in 1..Len(kept) |->
                  [role |-> kept[i].object.role.string,
                   text |-> kept[i].object.text.string]]

\* ------------------------------------------------- run(): steps 1 and 2

\* run() with step 3 started on the output of step 1 alone
NextStepSkipsHistory(step) ==
    IF step = "getSheetData" THEN "streamGeminiAndEditDiscord"
    ELSE IF step = "getHistory" THEN "streamGeminiAndEditDiscord"
    ELSE IF step = "streamGeminiAndEditDiscord" THEN "saveHistory"
    ELSE "done"

\* run(): the step awaited after `step` has returned
NextStep(step) ==
    IF step = "getSheetData" THEN "getHistory"
    ELSE IF step = "getHistory" THEN "streamGeminiAndEditDiscord"
    ELSE IF step = "streamGeminiAndEditDiscord" THEN "saveHistory"
    ELSE "done"

\* step.do that throws into run() the first time the body throws
StepFailedNoRetry(limit, message, again) ==
    /\ stepTries' = 0
    /\ pc' = "catch"
    /\ errorMessage' = message

\* step.do: the body threw with `message`.  The substrate runs the body again
\* while the step's retry budget lasts, then throws into run().
StepFailed(limit, message, again) ==
    IF stepTries < limit
    THEN /\ stepTries' = stepTries + 1
         /\ pc' = again
         /\ errorMessage' = errorMessage
    ELSE /\ stepTries' = 0
         /\ pc' = "catch"
         /\ errorMessage' = message

\* saveHistory adding the last exchange to what the store holds
putHistoryMerging(history) ==
    kvPut(storedHistory(getHistory(TRUE)
                           \o SubSeq(history, Len(history) - 1, Len(history))),
          <<history>>)

\* the put of KV.saveHistory: the value under chat_history becomes the
\* history given, whatever was there
putHistory(history) == kvPut(storedHistory(history), <<history>>)

\* getSheetDataStep going to the reference source whatever the cache holds
cacheHitNever(cache) == FALSE

\* `if (cache)`
cacheHit(cache) == cache # <<>>

\* getSheetDataStep going on to the reference source after any cache read
afterCacheReadAlwaysFetch(cache) == "getSheetData.fetch"

\* where getSheetDataStep goes after `await kv.getCache()`: it returns on a
\* hit (step 2 is next) and calls getSheetData on a miss
afterCacheRead(cache) ==
    IF cacheHit(cache) THEN "getHistory" ELSE "getSheetData.fetch"

\* the cache write of getSheetDataStep without its try/catch
saveCacheUnguarded(saveOk) == [threw |-> ~saveOk, cached |-> saveOk]

\* the cache write of getSheetDataStep: KV.saveCache throws when the put
\* fails, and the step catches it, logs and goes on
saveCacheBestEffort(saveOk) == [threw |-> FALSE, cached |-> saveOk]

\* step 1: getSheetDataStep
GetSheetData(readOk, fetchOk, saveOk) ==
    /\ pc = "getSheetData"
    /\ LET cache == getCache(readOk) IN
       IF cacheHit(cache)
       THEN /\ sheetData' = <<[sheetInfo |-> cache[1].sheetInfo,
                               description |-> cache[1].description,
                               fromCache |-> TRUE]>>
            /\ pc' = NextStep("getSheetData")
            /\ stepTries' = 0
            /\ trace' = trace \o <<Event("getSheetData", "start"),
                                   Event("getSheetData", "return")>>
            /\ faults' = (faults \/ ~readOk)
            /\ UNCHANGED <<kvCache, obs, errorMessage>>
       ELSE IF fetchOk /\ saveCacheBestEffort(saveOk).threw
       THEN /\ obs' = [obs EXCEPT !.fetches = @ + 1, !.cacheWrites = @ + 1,
                                  !.cacheWriteFailures = @ + 1]
            /\ StepFailed(DefaultRetryLimit, Str(ErrSaveCache, 25),
                          "getSheetData")
            /\ trace' = trace \o <<Event("getSheetData", "start"),
                                   Event("getSheetData", "throw")>>
            /\ faults' = TRUE
            /\ UNCHANGED <<kvCache, sheetData>>
       ELSE IF fetchOk
       THEN /\ kvCache' = IF saveCacheBestEffort(saveOk).cached
                          THEN CachedSheetData ELSE kvCache
            /\ obs' = [obs EXCEPT !.fetches = @ + 1, !.cacheWrites = @ + 1,
                                  !.cacheWriteFailures =
                                      @ + (IF saveOk THEN 0 ELSE 1)]
            /\ sheetData' = <<[sheetInfo |-> SheetData.sheetInfo,
                               description |-> SheetData.description,
                               fromCache |-> FALSE]>>
            /\ pc' = NextStep("getSheetData")
            /\ stepTries' = 0
            /\ trace' = trace \o <<Event("getSheetData", "start"),
                                   Event("getSheetData", "return")>>
            /\ faults' = (faults \/ ~readOk \/ ~saveOk)
            /\ UNCHANGED errorMessage
       ELSE /\ obs' = Bump("fetches")
            /\ StepFailed(DefaultRetryLimit, ErrSheet, "getSheetData")
            /\ trace' = trace \o <<Event("getSheetData", "start"),
                                   Event("getSheetData", "throw")>>
            /\ faults' = TRUE
            /\ UNCHANGED <<kvCache, sheetData>>
    /\ UNCHANGED <<historyOutput, streamResult, kvHistory, trackerVars,
                   streamVars, sinkVars, reportVars>>

\* step 2: getHistoryStep
GetHistory(readOk) ==
    /\ pc = "getHistory"
    /\ historyOutput' = getHistory(readOk)
    /\ obs' = [obs EXCEPT !.loaded = getHistory(readOk)]
    /\ pc' = NextStep("getHistory")
    /\ trace' = trace \o <<Event("getHistory", "start"),
                           Event("getHistory", "return")>>
    /\ faults' = (faults \/ ~readOk)
    /\ UNCHANGED <<stepTries, sheetData, streamResult, errorMessage,
                   storeVars, trackerVars, streamVars, sinkVars,
                   reportVars>>

\* ----------------------------------------------------- run(): step 3

\* lengths of the parts the stream delivers
ThinkingLens == {100, 200}
ResponseLens == {0, 50}
ChunkLens(phase) == IF phase = "thinking" THEN ThinkingLens ELSE ResponseLens
TimeSteps == {0, THINKING_EDIT_INTERVAL_MS, DISCORD_EDIT_INTERVAL_MS}
Phases == {"thinking", "response"}

ErrUnexpected == Str("err_ai_unexpected", 25)

\* GeminiClient.handleUnexpectedError: errors whose message names the API or
\* the AI are rethrown as they are, the others are replaced
handleUnexpectedError(message) ==
    IF message \in {ErrQuota, ErrAuth, ErrRequest, ErrEmpty}
    THEN message
    ELSE ErrUnexpected

\* the locals of streamGeminiWithDiscordEditsStep as it declares them (they
\* are gone when the body is left)
FreshLocals ==
    /\ lastEditTime' = 0
    /\ lastThinkingEditLength' = 0
    /\ lastResponseEditLength' = 0
    /\ editCount' = 0
    /\ currentPhase' = "thinking"
    /\ accumulatedThinking' = <<>>
    /\ fullText' = <<>>
    /\ now' = StartTime
    /\ edit' = <<>>

\* an attempt of step 3 threw `message`, its stream read to the end or not
AttemptFailed(message, streamDone) ==
    /\ StepFailed(StepRetryLimit, message, "streamGeminiAndEditDiscord")
    /\ trace' = Append(trace, Event("streamGeminiAndEditDiscord", "throw"))
    /\ faults' = TRUE
    /\ FreshLocals
    /\ obs' = [obs EXCEPT !.streamOpens = 0, !.edits = 0,
                          !.completed = streamDone, !.responseSeen = FALSE,
                          !.forcedEdits = 0, !.gateEditAt = -1]

\* the body of step 3 starts: fresh clients and accumulators, then askStream
\* opens the stream through withRetry
StreamBegin(outcomes) ==
    /\ pc = "streamGeminiAndEditDiscord"
    /\ FreshLocals
    /\ LET r == withRetry(outcomes, GeminiRetryConfig,
                          {k \in GeminiErrors : isRetryableError(k)}) IN
       /\ IF r.ok
          THEN /\ pc' = "streaming"
               /\ obs' = [obs EXCEPT !.streamOpens = r.calls, !.edits = 0,
                                     !.finalEdits = 0, !.completed = FALSE,
                                     !.responseSeen = FALSE,
                                     !.forcedEdits = 0, !.gateEditAt = -1]
               /\ trace' = Append(trace,
                              Event("streamGeminiAndEditDiscord", "start"))
               /\ faults' = (faults \/ r.calls > 1)
               /\ UNCHANGED <<stepTries, errorMessage>>
          ELSE /\ StepFailed(StepRetryLimit,
                     handleUnexpectedError(handleGeminiError(r.error)),
                     "streamGeminiAndEditDiscord")
               /\ trace' = trace
                     \o <<Event("streamGeminiAndEditDiscord", "start"),
                          Event("streamGeminiAndEditDiscord", "throw")>>
               /\ faults' = TRUE
               /\ obs' = [obs EXCEPT !.streamOpens = 0, !.edits = 0,
                                     !.finalEdits = 0, !.completed = FALSE,
                                     !.responseSeen = FALSE,
                                     !.forcedEdits = 0, !.gateEditAt = -1]
    /\ UNCHANGED <<sheetData, historyOutput, streamResult, storeVars,
                   trackerVars, chunks, sinkVars, reportVars>>

\* the gate without the forced transition
ShouldEditNoTransition(isPhaseTransition, timeSinceLastEdit, editInterval, newCharsCount, minChunkSize) ==
    timeSinceLastEdit >= editInterval /\ newCharsCount >= minChunkSize

\* onChunk's gate: the forced transition, or both thresholds of the phase
ShouldEdit(isPhaseTransition, timeSinceLastEdit, editInterval, newCharsCount, minChunkSize) ==
    \/ isPhaseTransition
    \/ (timeSinceLastEdit >= editInterval /\ newCharsCount >= minChunkSize)

\* the characters since the start of the phase
charsSinceStart(textLength, lastLen) == textLength

\* onChunk, newCharsCount: the characters since the last applied edit of the
\* phase
charsSince(textLength, lastLen) == textLength - lastLen

\* the accumulator updated whether the edit succeeded or not
onEditAlways(success, old, new) == new

\* onChunk, `if (success) {...}`: an accumulator field after an edit
onEditSuccess(success, old, new) == IF success THEN new ELSE old

\* askStream hands one part of the stream to onChunk, which runs to its end:
\* a part of `len` characters in `phase`, `dt` ms after the previous one
OnChunk(phase, len, dt, sumOutcome, editOk) ==
    /\ pc = "streaming"
    /\ chunks < MaxChunks
    /\ chunks' = chunks + 1
    /\ LET text == IF phase = "thinking" THEN Str("thinking", len)
                   ELSE Cat(fullText, Str("response", len))
           nowMs == now + dt
           timeSinceLastEdit == nowMs - lastEditTime
           isPhaseTransition ==
               phase = "response" /\ currentPhase = "thinking"
           thinking == IF phase = "thinking"
                       THEN Cat(accumulatedThinking, text)
                       ELSE accumulatedThinking
           editInterval == IF phase = "thinking"
                           THEN THINKING_EDIT_INTERVAL_MS
                           ELSE DISCORD_EDIT_INTERVAL_MS
           minChunkSize == IF phase = "thinking"
                           THEN THINKING_MIN_CHUNK_SIZE
                           ELSE MIN_CHUNK_SIZE
           lastLen == IF phase = "thinking" THEN lastThinkingEditLength
                      ELSE lastResponseEditLength
           textLength == IF phase = "thinking" THEN StrLen(thinking)
                         ELSE StrLen(text)
           newCharsCount == charsSince(textLength, lastLen)
           content ==
               IF phase = "thinking"
               THEN formatThinkingContent(Message,
                        summarizeThinking(thinking, sumOutcome))
               ELSE formatContent(Message, text)
       IN
       /\ now' = nowMs
       /\ fullText' = IF phase = "response" THEN text ELSE fullText
       /\ currentPhase' = phase
       /\ accumulatedThinking' = thinking
       /\ IF ShouldEdit(isPhaseTransition, timeSinceLastEdit, editInterval,
                        newCharsCount, minChunkSize)
          THEN /\ edit' = <<[content |-> content, ok |-> editOk,
                             kind |-> phase,
                             forced |-> isPhaseTransition,
                             summarizer |-> IF phase = "thinking"
                                            THEN sumOutcome ELSE "none",
                             \* summarizeThinking calls generateContent
                             \* once, directly
                             summarizerCalls |-> IF phase = "thinking"
                                                 THEN 1 ELSE 0]>>
               /\ obs' = [obs EXCEPT
                            !.edits = @ + 1,
                            !.shown = afterEdit(editOk, @, content),
                            !.responseSeen = @ \/ phase = "response",
                            !.forcedEdits =
                                IF isPhaseTransition THEN @ + 1 ELSE @,
                            !.gateEditAt =
                                IF isPhaseTransition THEN @ ELSE nowMs]
               /\ lastEditTime' = onEditSuccess(editOk, lastEditTime, nowMs)
               /\ lastThinkingEditLength' =
                    IF phase = "thinking"
                    THEN onEditSuccess(editOk, lastThinkingEditLength,
                                       StrLen(thinking))
                    ELSE lastThinkingEditLength
               /\ lastResponseEditLength' =
                    IF phase = "thinking" THEN lastResponseEditLength
                    ELSE onEditSuccess(editOk, lastResponseEditLength,
                                       StrLen(text))
               /\ editCount' = onEditSuccess(editOk, editCount, editCount + 1)
          ELSE /\ edit' = <<>>
               /\ obs' = [obs EXCEPT !.responseSeen = @ \/ phase = "response"]
               /\ UNCHANGED <<lastEditTime,
                              lastThinkingEditLength, lastResponseEditLength,
                              editCount>>
    /\ UNCHANGED <<runVars, storeVars, trackerVars, reportVars, sinkVars,
                   faults>>

\* the stream throws while askStream iterates it
StreamThrow(kind) ==
    /\ pc = "streaming"
    /\ AttemptFailed(handleUnexpectedError(handleGeminiError(kind)), FALSE)
    /\ UNCHANGED <<sheetData, historyOutput, streamResult, storeVars,
                   trackerVars, chunks, sinkVars, reportVars>>

\* askStream taking every completed stream as an answer
noValidResponseNever(text) == FALSE

\* askStream, `!fullText || !fullText.trim()`
noValidResponse(text) == IsBlank(text)

\* the stream ends: askStream rejects an empty answer, else appends to the
\* history and returns; the step then issues the final edit
StreamEnd(editOk) ==
    /\ pc = "streaming"
    /\ IF noValidResponse(fullText)
       THEN /\ AttemptFailed(handleUnexpectedError(ErrEmpty), TRUE)
            /\ UNCHANGED historyOutput
       ELSE /\ historyOutput' = addToHistory(historyOutput, Message, fullText)
            /\ edit' = <<[content |-> formatContent(Message, fullText),
                          ok |-> editOk, kind |-> "final",
                          forced |-> FALSE, summarizer |-> "none",
                          summarizerCalls |-> 0]>>
            /\ editCount' = editCount + 1
            /\ obs' = [obs EXCEPT
                         !.edits = @ + 1, !.finalEdits = @ + 1,
                         !.completed = TRUE,
                         !.shown = afterEdit(editOk, @,
                                       formatContent(Message, fullText))]
            /\ pc' = "returning"
            /\ UNCHANGED <<stepTries, errorMessage, trace, faults, now,
                           lastEditTime, lastThinkingEditLength,
                           lastResponseEditLength, currentPhase,
                           accumulatedThinking, fullText>>
    /\ UNCHANGED <<sheetData, streamResult, storeVars, trackerVars, chunks,
                   reportVars, sinkVars>>

\* the final edit has answered: the body returns and the step's result is kept
StepReturn ==
    /\ pc = "returning"
    /\ streamResult' = <<[response |-> fullText,
                          updatedHistory |-> historyOutput,
                          editCount |-> editCount]>>
    /\ pc' = NextStep("streamGeminiAndEditDiscord")
    /\ stepTries' = 0
    /\ trace' = Append(trace, Event("streamGeminiAndEditDiscord", "return"))
    /\ FreshLocals
    /\ UNCHANGED <<sheetData, historyOutput, errorMessage, storeVars,
                   trackerVars, chunks, sinkVars, reportVars, obs, faults>>

\* the step's 120 seconds run out while the body awaits the stream or the sink
StepTimeout ==
    /\ pc \in {"streaming", "returning"}
    /\ AttemptFailed(ErrTimeout, obs.completed)
    /\ UNCHANGED <<sheetData, historyOutput, streamResult, storeVars,
                   trackerVars, chunks, sinkVars, reportVars>>

\* ----------------------------------------------------- run(): step 4

ErrSaveHistory == Str("err_save_history", 35)

\* saveHistoryStep without its try/catch
saveHistoryStepThrowing(putOk) ==
    IF putOk THEN [threw |-> FALSE, success |-> TRUE]
    ELSE [threw |-> TRUE, success |-> FALSE]

\* saveHistoryStep: KV.saveHistory throws when the put fails, and the step
\* catches it and returns {success: false}
saveHistoryStep(putOk) ==
    IF putOk THEN [threw |-> FALSE, success |-> TRUE]
    ELSE [threw |-> FALSE, success |-> FALSE]

\* step 4: the step body runs; a throw would go through step.do into run()
SaveHistory(putOk) ==
    /\ pc = "saveHistory"
    /\ LET r == saveHistoryStep(putOk) IN
       /\ kvHistory' = IF putOk
                       THEN putHistory(streamResult[1].updatedHistory)
                       ELSE kvHistory
       /\ obs' = [obs EXCEPT !.saves = @ + 1,
                             !.saveFailures = @ + (IF r.success THEN 0 ELSE 1)]
       /\ faults' = (faults \/ ~putOk)
       /\ IF r.threw
          THEN /\ StepFailed(DefaultRetryLimit, ErrSaveHistory, "saveHistory")
               /\ trace' = trace \o <<Event("saveHistory", "start"),
                                      Event("saveHistory", "throw")>>
          ELSE /\ pc' = NextStep("saveHistory")
               /\ trace' = trace \o <<Event("saveHistory", "start"),
                                      Event("saveHistory", "return")>>
               /\ UNCHANGED <<stepTries, errorMessage>>
    /\ UNCHANGED <<sheetData, historyOutput, streamResult, kvCache,
                   trackerVars, streamVars, sinkVars, reportVars>>

\* ------------------------------------------------- the report pipeline

\* the reporting function without its try/catch
reportCatchMissing == "threw"

\* reportErrorToGitHub / reportHealthCheckToGitHub: the catch around the
\* whole pipeline logs a warning and the function returns
reportCatch == "returned"

\* what the search request can do: answer, answer with a non-OK status, throw
SearchOutcomes == {"ok", "status", "throw"}

\* isDuplicate that takes a failed search for a duplicate
isDuplicateFailClosed(fingerprint, outcome) ==
    outcome # "ok" \/ fingerprint \in issues

\* GitHubIssueClient.isDuplicate: an open issue carries the fingerprint;
\* false when the search fails
isDuplicate(fingerprint, outcome) == outcome = "ok" /\ fingerprint \in issues

SetRpc(r, to) == rpc' = [rpc EXCEPT ![r] = to]

\* the reporting function is entered with a report of `fingerprint`: it
\* returns at once when no token is configured
StartReport(r, fingerprint) ==
    /\ rcount' = [rcount EXCEPT ![r] = @ + 1]
    /\ rlog' = [rlog EXCEPT ![r] = NoLog]
    /\ IF githubToken
       THEN /\ rfp' = [rfp EXCEPT ![r] = fingerprint]
            /\ SetRpc(r, "kv_get")
       ELSE /\ SetRpc(r, "returned")
            /\ UNCHANGED rfp

\* the pipeline without the return on a stored key
afterKvGetNoReturn(existing) == "search"

\* `if (existing) return;`: where the pipeline goes after the key was read
afterKvGet(existing) == IF existing THEN "returned" ELSE "search"

\* layer 1: kv.get(error_reported:<fingerprint>)
ReportKvGet(r, getOk) ==
    /\ rpc[r] = "kv_get"
    /\ IF ~getOk
       THEN SetRpc(r, reportCatch) /\ UNCHANGED rlog
       ELSE /\ SetRpc(r, afterKvGet(rfp[r] \in kvReported))
            /\ rlog' = [rlog EXCEPT ![r].hit = rfp[r] \in kvReported]
    /\ UNCHANGED <<faults, runVars, storeVars, trackerVars, streamVars, sinkVars,
                   rfp, rcount, obs>>

\* layer 2: github.isDuplicate(fingerprint)
ReportSearch(r, outcome) ==
    /\ rpc[r] = "search"
    /\ rlog' = [rlog EXCEPT ![r].searches = @ + 1,
                            ![r].searchErr = outcome # "ok",
                            ![r].dup = isDuplicate(rfp[r], outcome)]
    /\ SetRpc(r, IF isDuplicate(rfp[r], outcome) THEN "put" ELSE "create")
    /\ UNCHANGED <<faults, runVars, storeVars, trackerVars, streamVars, sinkVars,
                   rfp, rcount, obs>>

\* the key written whether the issue was created or not
afterCreateAlwaysPut(created) == "put"

\* `if (created) { await kv.put(...) }`: where the pipeline goes after the
\* creation
afterCreate(created) == IF created THEN "put" ELSE "returned"

\* github.createIssue / github.createHealthCheckIssue: false when it fails
ReportCreate(r, createOk) ==
    /\ rpc[r] = "create"
    /\ rlog' = [rlog EXCEPT ![r].creates = @ + 1, ![r].created = createOk]
    /\ issues' = IF createOk THEN issues \cup {rfp[r]} ELSE issues
    /\ SetRpc(r, afterCreate(createOk))
    /\ UNCHANGED <<faults, runVars, storeVars, kvReported, envVars, streamVars,
                   sinkVars, rfp, rcount, obs>>

\* the key kept for as long as the sheet cache
expirationTtlOfCache == CACHE_TTL_SECONDS

\* `{ expirationTtl: ERROR_REPORTED_TTL_SECONDS }`
expirationTtl == ERROR_REPORTED_TTL_SECONDS

\* kv.put(error_reported:<fingerprint>, "1", {expirationTtl})
ReportKvPut(r, putOk) ==
    /\ rpc[r] = "put"
    /\ rlog' = [rlog EXCEPT ![r].puts = @ + 1,
                            ![r].ttl = expirationTtl]
    /\ kvReported' = IF putOk THEN kvReported \cup {rfp[r]} ELSE kvReported
    /\ SetRpc(r, IF putOk THEN "returned" ELSE reportCatch)
    /\ UNCHANGED <<faults, runVars, storeVars, issues, envVars, streamVars,
                   sinkVars, rfp, rcount, obs>>

\* --------------------------------------------- run(): the catch block

\* run() catches the error of a step and calls reportErrorToGitHub, which
\* returns at once when no token is configured
CatchError ==
    /\ pc = "catch"
    /\ pc' = "reporting"
    /\ obs' = Bump("reports")
    /\ StartReport("run", generateFingerprint(errorMessage))
    /\ UNCHANGED <<stepTries, sheetData, historyOutput, streamResult,
                   errorMessage, trace, storeVars, trackerVars, streamVars,
                   sinkVars, faults>>

\* reportErrorToGitHub has settled: run() goes on to the sendErrorResponse
\* step, or is left by the exception
ReportSettled ==
    /\ pc = "reporting"
    /\ rpc["run"] \in {"returned", "threw"}
    /\ pc' = IF rpc["run"] = "returned" THEN "sendErrorResponse" ELSE "raised"
    /\ SetRpc("run", "idle")
    /\ UNCHANGED <<stepTries, sheetData, historyOutput, streamResult,
                   errorMessage, trace, storeVars, trackerVars, streamVars,
                   sinkVars, rfp, rlog, rcount, obs, faults>>

\* sendDiscordResponseStep without its try/catch: the last error of the
\* retries is thrown
sendDiscordResponseStepThrowing(outcomes) ==
    LET r == withRetry(outcomes, SendRetryConfig, {"error"}) IN
    [threw |-> ~r.ok, success |-> r.ok, retryCount |-> r.calls - 1,
     attempts |-> r.calls]

\* the retryCount of a failed delivery taken as the number of attempts
failedRetryCountAttempts(attemptCount) == attemptCount

\* sendDiscordResponseStep, catch: `attemptCount > 0 ? attemptCount - 1 : 2`
failedRetryCount(attemptCount) ==
    IF attemptCount > 0 THEN attemptCount - 1 ELSE 2

\* sendDiscordResponseStep: postMessage through withRetry, every error
\* retried; the outcome of the retries is returned, never thrown
sendDiscordResponseStep(outcomes) ==
    LET r == withRetry(outcomes, SendRetryConfig, {"error"}) IN
    IF r.ok
    THEN [threw |-> FALSE, success |-> TRUE, retryCount |-> r.calls - 1,
          attempts |-> r.calls]
    ELSE [threw |-> FALSE, success |-> FALSE,
          retryCount |-> failedRetryCount(r.calls),
          attempts |-> r.calls]

\* the sendErrorResponse step
SendErrorResponse(outcomes) ==
    /\ pc = "sendErrorResponse"
    /\ LET r == sendDiscordResponseStep(outcomes) IN
       /\ obs' = [obs EXCEPT !.errSteps = @ + 1,
                             !.postAttempts = @ + r.attempts,
                             !.posts = @ + (IF r.success THEN 1 ELSE 0)]
       /\ posted' = Append(posted,
                        [content |-> IF errorMessage # <<>>
                                     THEN formatErrorContent(Message,
                                                             errorMessage)
                                     ELSE formatContent(Message,
                                                        Str("null", 4)),
                         delivered |-> r.success,
                         retryCount |-> r.retryCount])
       /\ faults' = faults
       /\ IF r.threw
          THEN /\ IF stepTries < DefaultRetryLimit
                  THEN stepTries' = stepTries + 1 /\ pc' = "sendErrorResponse"
                  ELSE stepTries' = 0 /\ pc' = "raised"
               /\ trace' = trace \o <<Event("sendErrorResponse", "start"),
                                      Event("sendErrorResponse", "throw")>>
          ELSE /\ pc' = "failed"
               /\ trace' = trace \o <<Event("sendErrorResponse", "start"),
                                      Event("sendErrorResponse", "return")>>
               /\ UNCHANGED stepTries
    /\ UNCHANGED <<sheetData, historyOutput, streamResult, errorMessage,
                   storeVars, trackerVars, streamVars, reportVars>>

\* ------------------------------------------------------ the specification

PostOutcomes == [1..SendMaxAttempts -> {"ok", "error"}]
OpenOutcomes == [1..GeminiMaxAttempts -> {"ok"} \cup GeminiErrors]

\* reports of other runs, made before this run's report reads the tracker,
\* have left a key, an issue, both or neither for its fingerprint
OtherReports(keys, found) ==
    /\ pc = "catch"
    /\ kvReported = {} /\ issues = {}
    /\ keys \cup found # {}
    /\ kvReported' = keys
    /\ issues' = found
    /\ UNCHANGED <<runVars, storeVars, envVars, streamVars, sinkVars,
                   reportVars, obs, faults>>

\* the pipeline of reporter r
ReportStep(r) ==
    \/ \E ok \in BOOLEAN : ReportKvGet(r, ok)
    \/ \E outcome \in SearchOutcomes : ReportSearch(r, outcome)
    \/ \E ok \in BOOLEAN : ReportCreate(r, ok)
    \/ \E ok \in BOOLEAN : ReportKvPut(r, ok)

\* The whole run.  The stream delivers parts of one length per phase, one
\* edit interval apart, and the summarizer answers; StreamSpec below explores
\* the throttle over all part lengths, delays and summarizer outcomes.
Next ==
    \/ \E readOk, fetchOk, saveOk \in BOOLEAN :
          GetSheetData(readOk, fetchOk, saveOk)
    \/ \E readOk \in BOOLEAN : GetHistory(readOk)
    \/ \E outcomes \in OpenOutcomes : StreamBegin(outcomes)
    \/ \E phase \in Phases, editOk \in BOOLEAN :
          /\ chunks < MaxRunChunks
          /\ OnChunk(phase, IF phase = "thinking" THEN THINKING_MIN_CHUNK_SIZE
                            ELSE MIN_CHUNK_SIZE,
                     DISCORD_EDIT_INTERVAL_MS, "text", editOk)
    \/ \E kind \in GeminiErrors : StreamThrow(kind)
    \/ \E editOk \in BOOLEAN : StreamEnd(editOk)
    \/ StepReturn
    \/ StepTimeout
    \/ \E putOk \in BOOLEAN : SaveHistory(putOk)
    \/ \E keys, found \in SUBSET {generateFingerprint(errorMessage)} :
          OtherReports(keys, found)
    \/ CatchError
    \/ ReportStep("run")
    \/ ReportSettled
    \/ \E outcomes \in PostOutcomes : SendErrorResponse(outcomes)

Spec == Init /\ [][Next]_vars

\* Step 3 alone: run() has taken steps 1 and 2, over a cache hit and a stored
\* conversation, and enters step 3
StreamInit ==
    /\ pc = "streamGeminiAndEditDiscord"
    /\ kvCache = CachedSheetData
    /\ kvHistory = kvPut(storedHistory(OldHistory), <<OldHistory>>)
    /\ kvReported = {}
    /\ issues = {}
    /\ githubToken = TRUE
    /\ stepTries = 0
    /\ sheetData = <<[sheetInfo |-> SheetData.sheetInfo,
                      description |-> SheetData.description,
                      fromCache |-> TRUE]>>
    /\ historyOutput = getHistory(TRUE)
    /\ streamResult = <<>>
    /\ errorMessage = <<>>
    /\ trace = <<Event("getSheetData", "start"), Event("getSheetData", "return"),
                 Event("getHistory", "start"), Event("getHistory", "return")>>
    /\ StreamLocalsInit
    /\ chunks = 0
    /\ posted = <<>>
    /\ ReportersInit
    /\ obs = [NoObs EXCEPT !.loaded = getHistory(TRUE)]
    /\ faults = FALSE
    /\ call = <<>>
    /\ ret = <<>>
    /\ runs = [r \in RunIds |-> NoRun]

StreamNext ==
    \/ \E outcomes \in OpenOutcomes : StreamBegin(outcomes)
    \/ \E len \in ChunkLens("thinking"), dt \in TimeSteps,
          sumOutcome \in SummarizerOutcomes, editOk \in BOOLEAN :
             OnChunk("thinking", len, dt, sumOutcome, editOk)
    \* (a response part never reaches the summarizer)
    \/ \E len \in ChunkLens("response"), dt \in TimeSteps,
          editOk \in BOOLEAN :
             OnChunk("response", len, dt, "text", editOk)
    \/ \E kind \in GeminiErrors : StreamThrow(kind)
    \/ \E editOk \in BOOLEAN : StreamEnd(editOk)
    \/ StepReturn
    \/ StepTimeout

StreamSpec == StreamInit /\ [][StreamNext]_vars

\* errors of failed runs, as run() hands them to reportErrorToGitHub
ReportedErrors == {ErrSheet, ErrTimeout}

\* reportHealthCheckToGitHub: `health_check:${failedNames}`
healthFingerprint(failedNames) == Cat(Str("health_check:", 13), failedNames)

\* the sorted, comma-joined names of the checks that can fail together
FailedNames == {Str("gemini,google_sa", 16)}

ReportsStarted == rcount["run"] + rcount["run2"] + rcount["health"]

\* the catch block of a failed run calls reportErrorToGitHub
ReportError(r, message) ==
    /\ r \in {"run", "run2"}
    /\ rpc[r] = "idle"
    /\ ReportsStarted < MaxReports
    /\ StartReport(r, generateFingerprint(message))
    /\ UNCHANGED <<runVars, storeVars, trackerVars, streamVars, sinkVars,
                   obs, faults>>

\* runHealthCheck calls reportHealthCheckToGitHub with the failed checks
ReportHealthCheck(failedNames) ==
    /\ rpc["health"] = "idle"
    /\ ReportsStarted < MaxReports
    /\ StartReport("health", healthFingerprint(failedNames))
    /\ UNCHANGED <<runVars, storeVars, trackerVars, streamVars, sinkVars,
                   obs, faults>>

\* the reporting function has returned to its caller
ReportReturn(r) ==
    /\ rpc[r] = "returned"
    /\ SetRpc(r, "idle")
    /\ rfp' = [rfp EXCEPT ![r] = <<>>]
    /\ rlog' = [rlog EXCEPT ![r] = NoLog]
    /\ UNCHANGED <<runVars, storeVars, trackerVars, streamVars, sinkVars,
                   rcount, obs, faults>>

\* the store drops a key error_reported:<fingerprint> whose TTL has run out
KeyExpires(fingerprint) ==
    /\ fingerprint \in kvReported
    /\ kvReported' = kvReported \ {fingerprint}
    /\ UNCHANGED <<runVars, storeVars, issues, envVars, streamVars,
                   sinkVars, reportVars, obs, faults>>

\* The report pipelines alone: two failed runs and the health check report
\* through the same store and the same tracker.
ReportInit ==
    /\ pc = "reporting"
    /\ RunInit
    /\ kvCache = <<>>
    /\ kvHistory = <<>>
    /\ kvReported = {}
    /\ issues = {}
    /\ githubToken \in BOOLEAN

ReportNext ==
    \/ \E r \in {"run", "run2"}, message \in ReportedErrors :
          ReportError(r, message)
    \/ \E failedNames \in FailedNames : ReportHealthCheck(failedNames)
    \/ \E r \in Reporters : ReportStep(r)
    \/ \E r \in Reporters : ReportReturn(r)
    \/ \E fingerprint \in kvReported : KeyExpires(fingerprint)

ReportSpec == ReportInit /\ [][ReportNext]_vars

\* no report is under way
NoReportUnderWay == \A r \in Reporters : rpc[r] = "idle"

\* The reports one after the other: a report starts only once the one
\* before it has returned.
SerialReportNext ==
    \/ \E r \in {"run", "run2"}, message \in ReportedErrors :
          NoReportUnderWay /\ ReportError(r, message)
    \/ \E failedNames \in FailedNames :
          NoReportUnderWay /\ ReportHealthCheck(failedNames)
    \/ \E r \in Reporters : ReportStep(r)
    \/ \E r \in Reporters : ReportReturn(r)
    \/ \E fingerprint \in kvReported : KeyExpires(fingerprint)

SerialReportSpec == ReportInit /\ [][SerialReportNext]_vars

\* ------------------------------------------------- withRetry on its own

\* errors fn throws, besides the thrown non-Error values
Errors == {"e1", "e2"}

\* withRetry(fn, config, shouldRetry) is called and runs to its end; what
\* the successive calls of fn do is drawn with the call
CallWithRetry(outcomes, config, retryable) ==
    /\ call = <<>>
    /\ call' = <<[fn |-> "withRetry", outcomes |-> outcomes,
                  config |-> config, retryable |-> retryable]>>
    /\ ret' = <<withRetry(outcomes, config, retryable)>>
    /\ UNCHANGED <<runVars, storeVars, kvReported, issues, githubToken, runs,
                   streamVars, sinkVars, reportVars, obs, faults>>

\* the caller has the result and is ready for another call
CallDone ==
    /\ call # <<>>
    /\ call' = <<>>
    /\ ret' = <<>>
    /\ UNCHANGED <<runVars, storeVars, kvReported, issues, githubToken, runs,
                   streamVars, sinkVars, reportVars, obs, faults>>

RetryConfigs ==
    {[DEFAULT_RETRY_CONFIG EXCEPT !.maxAttempts = n, !.initialDelayMs = d,
                                  !.maxDelayMs = m, !.backoffMultiplier = b] :
        n \in 0..MaxAttempts, d \in {500, 1000}, m \in {2000, 10000},
        b \in {2, 3}}

LibInit ==
    /\ pc = "elsewhere"
    /\ RunInit
    /\ kvCache = <<>>
    /\ kvHistory = <<>>
    /\ kvReported = {}
    /\ issues = {}
    /\ githubToken = TRUE

RetryNext ==
    \/ \E config \in RetryConfigs,
          retryable \in SUBSET {asError(e) : e \in Errors \cup NonErrors} :
          \E outcomes \in [1..config.maxAttempts ->
                               Values \cup Errors \cup NonErrors] :
             CallWithRetry(outcomes, config, retryable)
    \/ CallDone

RetrySpec == LibInit /\ [][RetryNext]_vars

\* ------------------------------------- generateFingerprint on its own

\* the values a dynamic part of an error message takes, by what it is: a
\* retry count, a status code and longer request ids; abc1234, abc12345,
\* 1234abcd and abcdef0123456789
DynamicValues(kind) ==
    IF kind = "uuid" THEN {Str("uuid", 36)}
    ELSE IF kind = "timestamp" THEN {Str("timestamp", 20), Str("timestamp", 24)}
    ELSE IF kind = "hex"
    THEN {<<Piece("hexletters", 3), Piece("digits", 5)>>,
          <<Piece("digits", 4), Piece("hexletters", 4)>>,
          <<Piece("hexletters", 6), Piece("digits", 10)>>}
    ELSE {Str("digits", n) : n \in {1, 3, 7, 8, 18}}

Static(text) == [kind |-> "static", text |-> text]
Dynamic(kind) == [kind |-> kind, text |-> <<>>]

\* error messages with their dynamic parts left open
Templates ==
    {<<Static(Str("Error for request ", 18)), Dynamic("uuid")>>,
     <<Static(Str("Error at ", 9)), Dynamic("timestamp")>>,
     <<Static(Str("Failed with status ", 19)), Dynamic("decimal"),
       Static(Str(" after ", 7)), Dynamic("decimal"),
       Static(Str(" retries", 8))>>,
     <<Static(Str("Error for hash ", 15)), Dynamic("hex")>>,
     <<Static(Str("Gemini API error: status ", 25)), Dynamic("decimal"),
       Static(Str(" at ", 4)), Dynamic("timestamp"),
       Static(Str(" request ", 9)), Dynamic("hex")>>,
     <<Static(Str("Timeout of request ", 19)), Dynamic("decimal")>>}

\* the messages that differ only in the values of the dynamic parts
RECURSIVE Messages(_)
Messages(template) ==
    IF template = <<>> THEN {<<>>}
    ELSE LET heads == IF template[1].kind = "static" THEN {template[1].text}
                      ELSE DynamicValues(template[1].kind)
         IN  {Cat(h, r) : h \in heads, r \in Messages(Tail(template))}

\* generateFingerprint is called with each of two such messages
Fingerprint(a, b) ==
    /\ call = <<>>
    /\ call' = <<[fn |-> "generateFingerprint", a |-> a, b |-> b]>>
    /\ ret' = <<[a |-> generateFingerprint(a), b |-> generateFingerprint(b)]>>
    /\ UNCHANGED <<runVars, storeVars, kvReported, issues, githubToken, runs,
                   streamVars, sinkVars, reportVars, obs, faults>>

FingerprintNext ==
    \/ \E template \in Templates :
          \E a, b \in Messages(template) : Fingerprint(a, b)
    \/ CallDone

FingerprintSpec == LibInit /\ [][FingerprintNext]_vars

\* ------------------------------------ askStream's loop and its callbacks

\* In this part `ret` holds the one execution of step 3 under way: the parts
\* askStream has handed to onChunk, the edits the sink has answered and
\* where the final edit is; `call` holds the calls of onChunk that have not
\* returned, each with the await it stands at.

\* askStream going on to the next part without awaiting onChunk
awaitOnChunkMissing(pending) == TRUE

\* askStream, `await onChunk(...)`: the loop goes on once the callback has
\* returned
awaitOnChunk(pending) == pending = <<>>

\* the first await of onChunk for a part that passes the gate
firstAwait(phase) ==
    IF phase = "thinking" THEN "summarizeThinking" ELSE "editOriginalMessage"

\* streamGeminiWithDiscordEditsStep is entered and askStream has the stream
AskStream ==
    /\ ret = <<>>
    /\ call = <<>>
    /\ ret' = <<[parts |-> <<>>, edits |-> 0, final |-> "none"]>>
    /\ UNCHANGED <<call, runVars, storeVars, kvReported, issues, githubToken,
                   runs, streamVars, sinkVars, reportVars, obs, faults>>

\* the stream yields a part and askStream calls onChunk with it; onChunk
\* runs to its first await, or to its end when the gate does not pass
PartArrives(phase, gatePasses) ==
    /\ ret # <<>>
    /\ ret[1].final = "none"
    /\ Len(ret[1].parts) < MaxChunks
    /\ awaitOnChunk(call)
    /\ ret' = <<[ret[1] EXCEPT !.parts =
                    Append(@, [phase |-> phase, edited |-> gatePasses])]>>
    /\ call' = IF gatePasses
               THEN Append(call, [fn |-> "onChunk",
                                  part |-> Len(ret[1].parts) + 1,
                                  at |-> firstAwait(phase)])
               ELSE call
    /\ UNCHANGED <<runVars, storeVars, kvReported, issues, githubToken, runs,
                   streamVars, sinkVars, reportVars, obs, faults>>

\* summarizeThinking returns to the i-th pending onChunk, which goes on to
\* editOriginalMessage
SummarizerReturns(i) ==
    /\ i \in DOMAIN call
    /\ call[i].at = "summarizeThinking"
    /\ call' = [call EXCEPT ![i].at = "editOriginalMessage"]
    /\ UNCHANGED <<ret, runVars, storeVars, kvReported, issues, githubToken,
                   runs, streamVars, sinkVars, reportVars, obs, faults>>

\* editOriginalMessage returns to the i-th pending onChunk, which returns
EditReturns(i) ==
    /\ i \in DOMAIN call
    /\ call[i].at = "editOriginalMessage"
    /\ call' = SubSeq(call, 1, i - 1) \o SubSeq(call, i + 1, Len(call))
    /\ ret' = <<[ret[1] EXCEPT !.edits = @ + 1]>>
    /\ UNCHANGED <<runVars, storeVars, kvReported, issues, githubToken, runs,
                   streamVars, sinkVars, reportVars, obs, faults>>

\* the stream is exhausted, askStream returns and the step issues the final
\* edit
FinalEdit ==
    /\ ret # <<>>
    /\ ret[1].final = "none"
    /\ Len(ret[1].parts) > 0
    /\ awaitOnChunk(call)
    /\ ret' = <<[ret[1] EXCEPT !.final = "editOriginalMessage"]>>
    /\ UNCHANGED <<call, runVars, storeVars, kvReported, issues, githubToken,
                   runs, streamVars, sinkVars, reportVars, obs, faults>>

\* the sink answers the final edit and the step returns
FinalEditReturns ==
    /\ ret # <<>>
    /\ ret[1].final = "editOriginalMessage"
    /\ ret' = <<[ret[1] EXCEPT !.final = "returned"]>>
    /\ UNCHANGED <<call, runVars, storeVars, kvReported, issues, githubToken,
                   runs, streamVars, sinkVars, reportVars, obs, faults>>

AwaitNext ==
    \/ AskStream
    \/ \E phase \in Phases, gatePasses \in BOOLEAN :
          PartArrives(phase, gatePasses)
    \/ \E i \in 1..MaxChunks : SummarizerReturns(i)
    \/ \E i \in 1..MaxChunks : EditReturns(i)
    \/ FinalEdit
    \/ FinalEditReturns

AwaitSpec == LibInit /\ [][AwaitNext]_vars

\* ------------------------------------------------ the store on its own

\* the pairs saveCache is called with
CachePairs ==
    {[sheetInfo |-> i, description |-> SheetData.description] :
        i \in {SheetData.sheetInfo, <<>>}}

\* texts another writer can leave under sheet_info
OtherCacheTexts ==
    {Unparseable, JNull, JNumber(1), JString(SheetData.sheetInfo),
     JArray(<<>>),
     JObject([sheetInfo |-> JString(SheetData.sheetInfo)]),
     JObject([sheetInfo |-> JNumber(1),
              description |-> JString(SheetData.description)]),
     JObject([sheetInfo |-> JString(SheetData.sheetInfo),
              description |-> JString(SheetData.description),
              updatedAt |-> JNumber(1)])}

\* an entry with a field the store does not keep
TimestampedEntry ==
    [role |-> "user", text |-> Str("old_message", 5), timestamp |-> "t1"]

\* the histories saveHistory is called with
HistoryInputs ==
    {<<>>, OldHistory,
     <<TimestampedEntry, ModelEntry(Str("old_resp", 40))>>}

StoredUser == JObject([role |-> JString("user"),
                       text |-> JString(Str("old_message", 5))])
StoredModel == JObject([role |-> JString("model"),
                        text |-> JString(Str("old_resp", 40))])

\* texts another writer can leave under chat_history
OtherHistoryTexts ==
    {Unparseable, JNull, JObject([role |-> JString("user")]),
     JArray(<<JNull, StoredUser, JString("entry"), StoredModel>>),
     JArray(<<StoredModel, JObject([role |-> JNumber(1),
                                    text |-> JString(<<>>)]),
              JObject([role |-> JString("user")]), StoredUser>>)}

\* KV.saveCache: throws its own error when the put fails
KVSaveCache(pair, putOk) ==
    /\ call = <<>>
    /\ call' = <<[fn |-> "saveCache", pair |-> pair]>>
    /\ kvCache' = IF putOk
                   THEN kvPut(storedCache(pair.sheetInfo, pair.description),
                              <<pair>>)
                   ELSE kvCache
    /\ ret' = <<[threw |-> ~putOk,
                 error |-> IF putOk THEN "none" ELSE ErrSaveCache]>>
    /\ UNCHANGED <<runVars, kvHistory, kvReported, issues, githubToken, runs,
                   streamVars, sinkVars, reportVars, obs, faults>>

\* KV.getCache
KVGetCache(readOk) ==
    /\ call = <<>>
    /\ call' = <<[fn |-> "getCache", readOk |-> readOk]>>
    /\ ret' = <<[threw |-> FALSE, value |-> getCache(readOk)]>>
    /\ UNCHANGED <<runVars, storeVars, kvReported, issues, githubToken, runs,
                   streamVars, sinkVars, reportVars, obs, faults>>

\* KV.saveHistory: throws its own error when the put fails
KVSaveHistory(history, putOk) ==
    /\ call = <<>>
    /\ call' = <<[fn |-> "saveHistory", history |-> history]>>
    /\ kvHistory' = IF putOk THEN putHistory(history) ELSE kvHistory
    /\ ret' = <<[threw |-> ~putOk,
                 error |-> IF putOk THEN "none" ELSE ErrSaveConversation]>>
    /\ UNCHANGED <<runVars, kvCache, kvReported, issues, githubToken, runs,
                   streamVars, sinkVars, reportVars, obs, faults>>

\* KV.getHistory
KVGetHistory(readOk) ==
    /\ call = <<>>
    /\ call' = <<[fn |-> "getHistory", readOk |-> readOk]>>
    /\ ret' = <<[threw |-> FALSE, value |-> getHistory(readOk)]>>
    /\ UNCHANGED <<runVars, storeVars, kvReported, issues, githubToken, runs,
                   streamVars, sinkVars, reportVars, obs, faults>>

\* another writer puts a text under sheet_info
PutCacheText(text) ==
    /\ call = <<>>
    /\ kvCache' = kvPut(text, <<>>)
    /\ UNCHANGED <<runVars, kvHistory, trackerVars, streamVars, sinkVars,
                   reportVars, obs, faults>>

\* another writer puts a text under chat_history
PutHistoryText(text) ==
    /\ call = <<>>
    /\ kvHistory' = kvPut(text, <<>>)
    /\ UNCHANGED <<runVars, kvCache, trackerVars, streamVars, sinkVars,
                   reportVars, obs, faults>>

\* the entry half a freshness window later
aged(entry) ==
    IF entry = <<>> \/ entry[1].age >= MaxTicks * (CACHE_TTL_SECONDS \div 2)
    THEN entry
    ELSE <<[entry[1] EXCEPT !.age = @ + CACHE_TTL_SECONDS \div 2]>>

\* half a freshness window passes
TimePasses ==
    /\ call = <<>>
    /\ aged(kvCache) # kvCache \/ aged(kvHistory) # kvHistory
    /\ kvCache' = aged(kvCache)
    /\ kvHistory' = aged(kvHistory)
    /\ UNCHANGED <<runVars, trackerVars, streamVars, sinkVars, reportVars,
                   obs, faults>>

StoreNext ==
    \/ \E pair \in CachePairs, putOk \in BOOLEAN : KVSaveCache(pair, putOk)
    \/ \E readOk \in BOOLEAN : KVGetCache(readOk)
    \/ \E history \in HistoryInputs, putOk \in BOOLEAN :
          KVSaveHistory(history, putOk)
    \/ \E readOk \in BOOLEAN : KVGetHistory(readOk)
    \/ \E text \in OtherCacheTexts : PutCacheText(text)
    \/ \E text \in OtherHistoryTexts : PutHistoryText(text)
    \/ TimePasses
    \/ CallDone

StoreSpec == LibInit /\ [][StoreNext]_vars

\* ------------------------------------------------- two runs side by side

\* the saves of chat_history gone through so far
SavesDone == Cardinality({r \in RunIds : runs[r].saveIndex > 0})

RunUnchanged ==
    UNCHANGED <<runVars, kvReported, issues, githubToken, call, ret,
                streamVars, sinkVars, reportVars, obs, faults>>

\* a request creates run r
RunStart(r) ==
    /\ runs[r].pc = "idle"
    /\ runs' = [runs EXCEPT ![r].pc = "getSheetData",
                            ![r].message = MessageOf(r)]
    /\ UNCHANGED storeVars
    /\ RunUnchanged

\* step 1 of run r up to the end of `await kv.getCache()`
RunGetCache(r, readOk) ==
    /\ runs[r].pc = "getSheetData"
    /\ runs' = [runs EXCEPT ![r].pc = afterCacheRead(getCache(readOk)),
                            ![r].cache = getCache(readOk)]
    /\ UNCHANGED storeVars
    /\ RunUnchanged

\* step 1 of run r: `await getSheetData(...)` returns the reference data
RunFetchSheet(r) ==
    /\ runs[r].pc = "getSheetData.fetch"
    /\ runs' = [runs EXCEPT ![r].pc = "getSheetData.saveCache",
                            ![r].fetches = @ + 1]
    /\ UNCHANGED storeVars
    /\ RunUnchanged

\* step 1 of run r: `await kv.saveCache(...)` in its try/catch, and the
\* return of the step
RunSaveCache(r, saveOk) ==
    /\ runs[r].pc = "getSheetData.saveCache"
    /\ kvCache' = IF saveCacheBestEffort(saveOk).cached
                   THEN CachedSheetData ELSE kvCache
    /\ runs' = [runs EXCEPT ![r].pc = "getHistory",
                            ![r].cacheWrites = @ + 1]
    /\ UNCHANGED kvHistory
    /\ RunUnchanged

\* step 2 of run r
RunGetHistory(r, readOk) ==
    /\ runs[r].pc = "getHistory"
    /\ runs' = [runs EXCEPT ![r].pc = "streamGeminiAndEditDiscord",
                            ![r].history = getHistory(readOk),
                            ![r].savesSeen = SavesDone]
    /\ UNCHANGED storeVars
    /\ RunUnchanged

\* step 3 of run r returns: updatedHistory is the loaded history and the
\* exchange of this run
RunStream(r) ==
    /\ runs[r].pc = "streamGeminiAndEditDiscord"
    /\ runs' = [runs EXCEPT ![r].pc = "saveHistory",
                            ![r].updatedHistory =
                                addToHistory(runs[r].history,
                                             runs[r].message,
                                             ResponseOf(r))]
    /\ UNCHANGED storeVars
    /\ RunUnchanged

\* step 4 of run r; a put that fails is logged and the run ends all the same
RunSaveHistory(r, putOk) ==
    /\ runs[r].pc = "saveHistory"
    /\ kvHistory' = IF putOk THEN putHistory(runs[r].updatedHistory)
                     ELSE kvHistory
    /\ runs' = [runs EXCEPT ![r].pc = "done",
                            ![r].saveIndex =
                                IF putOk THEN SavesDone + 1 ELSE 0]
    /\ UNCHANGED kvCache
    /\ RunUnchanged

\* the cache entry of the reference data once its TTL has run out
ExpiredSheetData ==
    <<KVEntry(storedCache(SheetData.sheetInfo, SheetData.description),
              CACHE_TTL_SECONDS, CACHE_TTL_SECONDS, <<SheetData>>)>>

TwoRunsInit ==
    /\ pc = "elsewhere"
    /\ RunInit
    /\ kvCache \in {<<>>, CachedSheetData, ExpiredSheetData}
    /\ kvHistory \in {<<>>, kvPut(storedHistory(OldHistory), <<OldHistory>>)}
    /\ kvReported = {}
    /\ issues = {}
    /\ githubToken = TRUE

TwoRunsNext ==
    \E r \in RunIds :
        \/ RunStart(r)
        \/ \E readOk \in BOOLEAN : RunGetCache(r, readOk)
        \/ RunFetchSheet(r)
        \/ \E saveOk \in BOOLEAN : RunSaveCache(r, saveOk)
        \/ \E readOk \in BOOLEAN : RunGetHistory(r, readOk)
        \/ RunStream(r)
        \/ \E putOk \in BOOLEAN : RunSaveHistory(r, putOk)

TwoRunsSpec == TwoRunsInit /\ [][TwoRunsNext]_vars

\* ------------------------------------------------- the inbound request

ErrMissingData == "Invalid Discord interaction: missing data"
ErrMissingOptions == "Invalid Discord interaction: missing options"
ErrQuestion ==
    "Invalid Discord interaction: question must be a non-empty string"
ErrStart == "Failed to start processing"
ErrInteractionType == "Invalid interaction type"

\* `!question.trim()` without the trim
blankQuestionUntrimmed(question) == question = <<>>

\* `!question.trim()`
blankQuestion(question) == trim(question) = <<>>

\* validateDiscordCommand: the trimmed question, or the error it throws
validateDiscordCommand(body) ==
    IF body.data = <<>>
    THEN [ok |-> FALSE, question |-> <<>>, error |-> ErrMissingData]
    ELSE IF \/ "array" \notin DOMAIN body.data[1].options
            \/ Len(body.data[1].options.array) = 0
    THEN [ok |-> FALSE, question |-> <<>>, error |-> ErrMissingOptions]
    ELSE IF \/ ~hasStringField(body.data[1].options.array[1], "value")
            \/ blankQuestion(
                  body.data[1].options.array[1].object.value.string)
    THEN [ok |-> FALSE, question |-> <<>>, error |-> ErrQuestion]
    ELSE [ok |-> TRUE,
          question |->
              trim(body.data[1].options.array[1].object.value.string),
          error |-> "none"]

\* the creation of the run with its failure dropped
workflowCreateSwallowed(createOk) == [created |-> createOk, threw |-> FALSE]

\* `await c.env.ANSWER_QUESTION_WORKFLOW.create(...)` in its try/catch: a
\* failure is thrown on as 'Failed to start processing'
workflowCreate(createOk) == [created |-> createOk, threw |-> ~createOk]

\* the catch of the handler: the error response with the message
requestFailed(message) == [kind |-> "error", description |-> message]

\* the option the question comes in
Option(value) == JObject([name |-> JString(Str("question", 8)),
                          value |-> value])

PaddedMessage == Cat(Str("space", 1), Cat(Message, Str("space", 2)))

\* body.data of the requests followed
RequestData ==
    {<<>>}
    \cup {<<[options |-> o]>> :
            o \in {JNull, JArray(<<>>), JArray(<<JNull>>),
                   JArray(<<JObject([name |-> JString(Str("question", 8))])>>),
                   JArray(<<Option(JNumber(1))>>),
                   JArray(<<Option(JString(<<>>))>>),
                   JArray(<<Option(JString(Str("space", 3)))>>),
                   JArray(<<Option(JString(Message))>>),
                   JArray(<<Option(JString(PaddedMessage)),
                            Option(JString(<<>>))>>)}}

\* the requests followed, past the signature check
Requests ==
    [type : {"PING", "APPLICATION_COMMAND", "MESSAGE_COMPONENT"},
     data : RequestData]

\* the run a creation makes
FreeRun == CHOOSE r \in RunIds : runs[r].pc = "idle"

RequestUnchanged ==
    UNCHANGED <<runVars, storeVars, kvReported, issues, githubToken,
                streamVars, sinkVars, reportVars, obs, faults>>

\* app.post('/') up to its first return, or to the end of the await of the
\* creation of the run
Post(body, createOk) ==
    /\ call = <<>>
    /\ \E r \in RunIds : runs[r].pc = "idle"
    /\ LET v == validateDiscordCommand(body)
           w == workflowCreate(createOk)
           at(where, r) == <<[fn |-> "post", body |-> body,
                              createOk |-> createOk, at |-> where,
                              run |-> r]>>
       IN
       IF body.type = "PING"
       THEN /\ call' = at("returned", "none")
            /\ ret' = <<[kind |-> "PONG", description |-> "none"]>>
            /\ UNCHANGED runs
       ELSE IF body.type # "APPLICATION_COMMAND"
       THEN /\ call' = at("returned", "none")
            /\ ret' = <<requestFailed(ErrInteractionType)>>
            /\ UNCHANGED runs
       ELSE IF ~v.ok
       THEN /\ call' = at("returned", "none")
            /\ ret' = <<requestFailed(v.error)>>
            /\ UNCHANGED runs
       ELSE IF w.threw
       THEN /\ call' = at("returned", "none")
            /\ ret' = <<requestFailed(ErrStart)>>
            /\ UNCHANGED runs
       ELSE /\ call' = at("created", IF w.created THEN FreeRun ELSE "none")
            /\ ret' = <<>>
            /\ runs' = IF w.created
                       THEN [runs EXCEPT ![FreeRun].pc = "getSheetData",
                                         ![FreeRun].message = v.question]
                       ELSE runs
    /\ RequestUnchanged

\* the handler returns the deferred acknowledgment
PostReturn ==
    /\ call # <<>>
    /\ call[1].at = "created"
    /\ call' = <<[call[1] EXCEPT !.at = "returned"]>>
    /\ ret' = <<[kind |-> "DEFERRED_CHANNEL_MESSAGE_WITH_SOURCE",
                 description |-> "none"]>>
    /\ runs' = IF call[1].run \in RunIds
               THEN [runs EXCEPT ![call[1].run].acked = TRUE]
               ELSE runs
    /\ RequestUnchanged

\* the caller has its response
PostDone ==
    /\ call # <<>>
    /\ call[1].at = "returned"
    /\ call' = <<>>
    /\ ret' = <<>>
    /\ UNCHANGED runs
    /\ RequestUnchanged

RequestInit ==
    /\ pc = "elsewhere"
    /\ RunInit
    /\ kvCache = CachedSheetData
    /\ kvHistory = <<>>
    /\ kvReported = {}
    /\ issues = {}
    /\ githubToken = TRUE

RequestNext ==
    \/ \E body \in Requests, createOk \in BOOLEAN : Post(body, createOk)
    \/ PostReturn
    \/ PostDone
    \/ \E r \in RunIds :
          \/ \E readOk \in BOOLEAN : RunGetCache(r, readOk)
          \/ RunFetchSheet(r)
          \/ \E saveOk \in BOOLEAN : RunSaveCache(r, saveOk)
          \/ \E readOk \in BOOLEAN : RunGetHistory(r, readOk)
          \/ RunStream(r)
          \/ \E putOk \in BOOLEAN : RunSaveHistory(r, putOk)

RequestSpec == RequestInit /\ [][RequestNext]_vars

\* The whole run, every enabled step of which is eventually taken: a call
\* that was made returns or fails, and the substrate runs the step it owes.
FairSpec == Spec /\ WF_vars(Next)

\* ------------------------------------------------------------- properties

\* content contains the string s
Embeds(content, s) ==
    /\ s # <<>>
    /\ \E i \in 1..Len(content) :
          /\ i + Len(s) - 1 <= Len(content)
          /\ SubSeq(content, i, i + Len(s) - 1) = s

\* the positions of the event in the trace
Positions(event) == {i \in DOMAIN trace : trace[i] = event}

Step3Throw == Event("streamGeminiAndEditDiscord", "throw")

\* every attempt of step 3 has failed
Step3Exhausted == Cardinality(Positions(Step3Throw)) = StepRetryLimit + 1

\* nothing of this run is in the persisted history
HistoryUntouched ==
    \A i \in DOMAIN getHistory(TRUE) :
        /\ ~HasSrc(getHistory(TRUE)[i].text, "message")
        /\ ~HasSrc(getHistory(TRUE)[i].text, "response")

\* C1: once step 3 has failed on every attempt of its retry budget, the run
\* never executes saveHistory and leaves the persisted history as it was,
\* calls reportErrorToGitHub exactly once, executes the sendErrorResponse
\* step exactly once with a message that embeds the error reason, and
\* executes no step of 1-4 after the last failure of step 3.
C1_ExhaustedStep3FailurePath ==
    Step3Exhausted =>
        /\ pc \in {"catch", "reporting", "sendErrorResponse", "failed"}
        /\ obs.saves = 0
        /\ Positions(Event("saveHistory", "start")) = {}
        /\ HistoryUntouched
        /\ obs.reports = (IF pc = "catch" THEN 0 ELSE 1)
        /\ rcount["run"] = obs.reports
        /\ obs.errSteps = (IF pc = "failed" THEN 1 ELSE 0)
        /\ Len(posted) = obs.errSteps
        /\ errorMessage \in {ErrQuota, ErrAuth, ErrRequest, ErrEmpty, ErrTimeout}
        /\ \A k \in DOMAIN posted :
              /\ Embeds(posted[k].content, errorMessage)
              /\ Embeds(posted[k].content, Message)
        /\ \A i \in DOMAIN trace :
              (\A j \in Positions(Step3Throw) : j < i)
                 => trace[i][1] = "sendErrorResponse"

C1_Witness ==
    /\ Step3Exhausted
    /\ pc = "failed"
    /\ posted # <<>> /\ posted[1].delivered
    /\ getHistory(TRUE) = OldHistory

\* the step run() awaits before `step`
PrevStep(step) ==
    IF step = "getHistory" THEN "getSheetData"
    ELSE IF step = "streamGeminiAndEditDiscord" THEN "getHistory"
    ELSE IF step = "saveHistory" THEN "streamGeminiAndEditDiscord"
    ELSE "none"

\* C2: the steps execute one at a time in the order getSheetData,
\* getHistory, streamGeminiAndEditDiscord, saveHistory: a step body starts
\* only as the first step, as a re-execution after its own failure, or after
\* the step before it has returned; a step returns or throws only while it
\* is the one that runs; and step 3 runs only with the outputs of steps 1
\* and 2.
C2_StepsInOrder ==
    /\ \A i \in DOMAIN trace :
          IF trace[i][2] = "start"
          THEN IF i = 1 THEN trace[i][1] = "getSheetData"
               ELSE \/ trace[i - 1] = Event(trace[i][1], "throw")
                    \/ trace[i - 1] = Event(PrevStep(trace[i][1]), "return")
                    \/ /\ trace[i][1] = "sendErrorResponse"
                       /\ trace[i - 1][2] = "throw"
          ELSE i > 1 /\ trace[i - 1] = Event(trace[i][1], "start")
    /\ pc \in {"streaming", "returning"} =>
          /\ trace[Len(trace)] = Event("streamGeminiAndEditDiscord", "start")
          /\ sheetData # <<>>
          /\ Positions(Event("getSheetData", "return")) # {}
          /\ Positions(Event("getHistory", "return")) # {}

C2_Witness ==
    /\ pc = "done"
    /\ Positions(Step3Throw) # {}
    /\ Positions(Event("getSheetData", "throw")) # {}
    /\ Len(trace) > 8

\* C3: in a run that starts with a cache miss and in which every call to
\* the store, the reference source and the model succeeds, the reference
\* source is fetched once, the cache is written once, the model stream is
\* opened once, at least two edits are issued (the stream delivered a
\* response part), one of them the final edit, saveHistory is executed once
\* and persists the history loaded at step 2 followed by the user entry
\* ("質問: " + message) and the model entry (the final answer), and neither
\* an error report nor a failure message is produced.
C3_CacheMissHappyPath ==
    (pc = "done" /\ ~faults /\ ~sheetData[1].fromCache) =>
        /\ obs.fetches = 1
        /\ obs.cacheWrites = 1
        /\ getCache(TRUE) = <<SheetData>>
        /\ obs.streamOpens = 1
        /\ obs.edits >= 2
        /\ obs.finalEdits = 1
        /\ obs.saves = 1
        /\ obs.saveFailures = 0
        /\ HasSrc(streamResult[1].response, "response")
        /\ getHistory(TRUE) = obs.loaded
              \o <<[role |-> "user",
                    text |-> Cat(Str("question_prefix", 4), Message)],
                   [role |-> "model", text |-> streamResult[1].response]>>
        /\ obs.reports = 0
        /\ obs.errSteps = 0
        /\ posted = <<>>
        /\ issues = {}

C3_Witness ==
    /\ pc = "done" /\ ~faults /\ ~sheetData[1].fromCache
    /\ obs.loaded = OldHistory
    /\ obs.edits = 3

\* C8: reportErrorToGitHub never throws: whatever fails in its pipeline,
\* it returns, and run() goes on from the report to the sendErrorResponse
\* step.
C8_ReportNeverThrows ==
    /\ rpc["run"] # "threw"
    /\ pc # "raised"
    /\ pc \in {"sendErrorResponse", "failed"} =>
          /\ obs.reports = 1
          /\ rpc["run"] = "idle"

\* a report whose store write failed after the issue was created
C8_Witness ==
    /\ pc = "sendErrorResponse"
    /\ rlog["run"].creates = 1
    /\ rlog["run"].puts = 1
    /\ rfp["run"] \in issues
    /\ rfp["run"] \notin kvReported

\* C9: a failed history write in step 4 is swallowed: saveHistoryStep
\* returns {success: false}, the run finishes on the success path, and once
\* step 3 has succeeded neither the error report nor the failure message is
\* triggered.
C9_SaveFailureSwallowed ==
    /\ obs.saveFailures > 0 =>
          /\ pc = "done"
          /\ obs.saves = 1
          /\ trace[Len(trace)] = Event("saveHistory", "return")
    /\ streamResult # <<>> =>
          /\ pc \in {"saveHistory", "done"}
          /\ obs.reports = 0
          /\ obs.errSteps = 0
          /\ posted = <<>>

C9_Witness ==
    /\ pc = "done"
    /\ obs.saveFailures = 1
    /\ getHistory(TRUE) = OldHistory
    /\ Len(streamResult[1].updatedHistory) = 4

\* C7: under fairness every run terminates, after saveHistory on the
\* success path or after the sendErrorResponse step on the failure path,
\* and run() never raises, whatever fails in the report pipeline and in the
\* delivery of the failure message.
C7_RunTerminates ==
    /\ [](pc # "raised")
    /\ <>(pc \in {"done", "failed"})
    /\ [](pc = "done" => trace[Len(trace)] = Event("saveHistory", "return"))
    /\ [](pc = "failed" =>
            trace[Len(trace)] = Event("sendErrorResponse", "return"))

\* a run that ended after a failed report and an undelivered failure message
C7_Witness ==
    /\ pc = "failed"
    /\ ~posted[1].delivered
    /\ obs.postAttempts = SendMaxAttempts
    /\ rlog["run"].searches = 1
    /\ rlog["run"].creates = 1
    /\ rfp["run"] \notin issues

\* `> ${question}\n${text}`, spelled out
QuestionThen(text) ==
    Cat(Cat(Str("quote", 2), Message), Cat(Str("newline", 1), text))

\* the content shows nothing of the thinking phase
NoThinkingIn(content) ==
    /\ ~HasSrc(content, "thinking")
    /\ ~HasSrc(content, "thought_balloon")
    /\ ~HasSrc(content, "summary")
    /\ ~HasSrc(content, "fallback")

\* a step of onChunk
ChunkStep == pc = "streaming" /\ chunks' = chunks + 1

\* C4 (as amended): when the model stream completes with a non-blank
\* response, the step issues exactly one final edit, after all
\* chunk-triggered edits and without any interval or size gate, whose content
\* is the question line followed by the complete response text and nothing
\* of the thinking phase; when the stream completes with a blank response
\* the attempt throws and issues no final edit.
C4_FinalEditOnNonBlankCompletion ==
    [][/\ (pc = "streaming" /\ obs'.completed) =>
             IF IsBlank(fullText)
             THEN /\ obs'.finalEdits = 0
                  /\ pc' \in {"streamGeminiAndEditDiscord", "catch"}
             ELSE /\ pc' = "returning"
                  /\ obs'.finalEdits = 1
                  /\ obs'.edits = obs.edits + 1
                  /\ Len(edit') = 1
                  /\ edit'[1].kind = "final"
                  /\ edit'[1].content = QuestionThen(fullText)
                  /\ NoThinkingIn(edit'[1].content)
                  /\ fullText' = fullText
       /\ pc = "returning" =>
             /\ chunks' = chunks
             /\ obs'.finalEdits <= 1
             /\ obs'.edits <= obs.edits
      ]_vars

\* the final edit issued where neither gate would pass: no time has passed
\* and no character has come since the last successful edit
C4_Witness ==
    /\ pc = "returning"
    /\ now = lastEditTime
    /\ lastResponseEditLength = StrLen(fullText)
    /\ HasSrc(accumulatedThinking, "thinking")
    /\ obs.edits = 3
    /\ edit[1].kind = "final"

\* C4 as stated: whenever the model stream has completed, exactly one final
\* edit has been issued
C4_Original_FinalEditOnEveryCompletion ==
    obs.completed => obs.finalEdits = 1

\* C5: on the first response chunk received while the throttle is in the
\* thinking phase, an edit showing the response text so far is issued,
\* whatever the time since the last edit and the number of new characters,
\* and the throttle moves to the response phase.
C5_ForcedTransitionEdit ==
    [][(ChunkStep /\ currentPhase = "thinking" /\ currentPhase' = "response") =>
          /\ Len(edit') = 1
          /\ edit'[1].kind = "response"
          /\ edit'[1].content = QuestionThen(fullText')
          /\ obs'.edits = obs.edits + 1
          /\ pc' = "streaming"
      ]_vars

\* the transition edit issued for an empty first response part that came
\* in the same millisecond as a successful thinking edit
C5_Witness ==
    /\ pc = "streaming"
    /\ chunks = 2
    /\ currentPhase = "response"
    /\ lastThinkingEditLength > 0
    /\ now = lastEditTime
    /\ fullText = <<>>
    /\ Len(edit) = 1 /\ edit[1].kind = "response" /\ ~edit[1].ok

\* C6: a failed intermediate edit does not abort the stream and leaves
\* lastEditTime, the last-emitted lengths and editCount as they were; a
\* chunk that passes both gates against these values has an edit issued;
\* and the step returns the complete response.
C6_FailedEditIsNonFatal ==
    [][/\ (ChunkStep /\ Len(edit') = 1 /\ ~edit'[1].ok) =>
             /\ pc' = "streaming"
             /\ lastEditTime' = lastEditTime
             /\ lastThinkingEditLength' = lastThinkingEditLength
             /\ lastResponseEditLength' = lastResponseEditLength
             /\ editCount' = editCount
             /\ stepTries' = stepTries
             /\ errorMessage' = errorMessage
       /\ (ChunkStep /\ currentPhase' = "response"
              /\ now' - lastEditTime >= DISCORD_EDIT_INTERVAL_MS
              /\ StrLen(fullText') - lastResponseEditLength >= MIN_CHUNK_SIZE)
             => Len(edit') = 1
       /\ (ChunkStep /\ currentPhase' = "thinking"
              /\ now' - lastEditTime >= THINKING_EDIT_INTERVAL_MS
              /\ StrLen(accumulatedThinking') - lastThinkingEditLength
                    >= THINKING_MIN_CHUNK_SIZE)
             => Len(edit') = 1
       /\ (pc = "returning" /\ pc' = "saveHistory") =>
             /\ streamResult'[1].response = fullText
             /\ HasSrc(fullText, "response")
      ]_vars

\* the step about to return after two intermediate edits failed
C6_Witness ==
    /\ pc = "returning"
    /\ obs.edits = 3
    /\ editCount = 1
    /\ lastEditTime = 0
    /\ StrLen(fullText) = 2 * MIN_CHUNK_SIZE

\* C10: when the key error_reported:<fingerprint> is present as a report
\* reads it, the pipeline returns without the remote search and without
\* creating an issue, for the reports of failed runs and for the reports of
\* the health check alike.
C10_StoredKeySkipsSearchAndCreate ==
    [][\A r \in Reporters :
          /\ (rpc[r] = "kv_get" /\ rpc'[r] # "kv_get"
                /\ rfp[r] \in kvReported) =>
                /\ rpc'[r] = "returned"
                /\ rlog'[r].searches = 0
                /\ rlog'[r].creates = 0
                /\ rlog'[r].puts = 0
                /\ issues' = issues
          /\ rlog[r].hit =>
                /\ rpc[r] = "returned"
                /\ rpc'[r] \in {"returned", "idle"}
                /\ rlog[r].searches = 0
                /\ rlog[r].creates = 0
      ]_vars

\* a report of a failed run and a report of the health check have both
\* returned on their stored keys
C10_Witness ==
    /\ rlog["run2"].hit
    /\ rlog["health"].hit
    /\ rpc["run2"] = "returned"
    /\ rpc["health"] = "returned"
    /\ rfp["run2"] # rfp["health"]

\* C11: when the key is absent as a report reads it: if the search reports a
\* duplicate, the key is put with a TTL of 3600 seconds and no issue is
\* created; otherwise the creation is called once, and the key is put if and
\* only if the creation succeeded, a failed creation leaving the store as it
\* was.
C11_AbsentKeySearchThenCreate ==
    [][\A r \in Reporters :
          /\ (rpc[r] = "kv_get" /\ rpc'[r] = "search") =>
                rfp[r] \notin kvReported
          /\ (rpc[r] = "search" /\ rpc'[r] # "search") =>
                /\ rlog'[r].searches = 1
                /\ rlog'[r].creates = 0
                /\ rpc'[r] = (IF rlog'[r].dup THEN "put" ELSE "create")
                /\ issues' = issues
          /\ (rpc[r] = "create" /\ rpc'[r] # "create") =>
                /\ ~rlog[r].dup
                /\ rlog'[r].creates = 1
                /\ rpc'[r] = (IF rlog'[r].created THEN "put" ELSE "returned")
                /\ rlog'[r].created => rfp[r] \in issues'
                /\ ~rlog'[r].created => issues' = issues
                /\ kvReported' = kvReported
          /\ (rpc[r] = "put" /\ rpc'[r] # "put") =>
                /\ rlog[r].dup \/ rlog[r].created
                /\ rlog[r].dup => rlog[r].creates = 0
                /\ rlog'[r].puts = 1
                /\ rlog'[r].ttl = 3600
                /\ rpc'[r] = "returned"
                /\ issues' = issues
                /\ kvReported' \in {kvReported, kvReported \cup {rfp[r]}}
          /\ (rpc'[r] = "returned" /\ rlog'[r].searches = 1) =>
                /\ rlog'[r].dup => (rlog'[r].creates = 0 /\ rlog'[r].puts = 1)
                /\ ~rlog'[r].dup =>
                      /\ rlog'[r].creates = 1
                      /\ rlog'[r].puts = (IF rlog'[r].created THEN 1 ELSE 0)
      ]_vars

\* a report of the health check found a duplicate and wrote the key, and a
\* report of a failed run returned from a failed creation with no key
C11_Witness ==
    /\ rpc["health"] = "returned"
    /\ rlog["health"].dup
    /\ rlog["health"].puts = 1
    /\ rfp["health"] \in kvReported
    /\ rpc["run"] = "returned"
    /\ rlog["run"].creates = 1
    /\ ~rlog["run"].created
    /\ rlog["run"].puts = 0
    /\ rfp["run"] \notin kvReported

\* C12: isDuplicate fails open: when the search answers with a non-OK status
\* or throws, it returns false and the pipeline goes on to create the issue,
\* also when an open issue carries the fingerprint.
C12_FailedSearchDoesNotBlock ==
    [][\A r \in Reporters :
          /\ (rpc[r] = "search" /\ rlog'[r].searchErr) =>
                /\ ~rlog'[r].dup
                /\ rpc'[r] = "create"
          /\ (rlog'[r].searchErr /\ rpc'[r] # "create") =>
                rlog'[r].creates = 1
      ]_vars

\* after a failed search a second issue went out for a fingerprint that
\* already had one
C12_Witness ==
    /\ rlog["run2"].searchErr
    /\ rlog["run2"].created
    /\ rlog["run"].created
    /\ rfp["run"] = rfp["run2"]
    /\ ~rlog["run"].searchErr

\* ------------------------------------------------------------- withRetry

\* the calls of fn that end the loop of the call at hand: a success, a
\* failure shouldRetry rejects, or the maxAttempts-th call
StoppingCalls ==
    {k \in 1..call[1].config.maxAttempts :
        \/ call[1].outcomes[k] \in Values
        \/ asError(call[1].outcomes[k]) \notin call[1].retryable
        \/ k = call[1].config.maxAttempts}

FirstStoppingCall ==
    CHOOSE k \in StoppingCalls : \A j \in StoppingCalls : k <= j

\* C13: for maxAttempts = N >= 1, withRetry calls the operation until the
\* first success, the first failure shouldRetry rejects, or the N-th call,
\* whichever comes first; a success at call k returns that result after
\* exactly k calls, and a failure at the stopping call is rethrown (as the
\* Error of the thrown value), never swallowed.
C13_CallsUntilFirstStop ==
    (call # <<>> /\ call[1].fn = "withRetry"
        /\ call[1].config.maxAttempts >= 1) =>
        LET k == FirstStoppingCall
            outcome == call[1].outcomes[k]
        IN  /\ ret[1].calls = k
            /\ outcome \in Values =>
                  (ret[1].ok /\ ret[1].value = outcome)
            /\ outcome \notin Values =>
                  (~ret[1].ok /\ ret[1].error = asError(outcome))
            /\ (\A j \in 1..call[1].config.maxAttempts :
                    /\ call[1].outcomes[j] \notin Values
                    /\ asError(call[1].outcomes[j]) \in call[1].retryable) =>
                  /\ ret[1].calls = call[1].config.maxAttempts
                  /\ ~ret[1].ok
            /\ (call[1].outcomes[1] \notin Values
                 /\ asError(call[1].outcomes[1]) \notin call[1].retryable) =>
                  /\ ret[1].calls = 1
                  /\ ret[1].error = asError(call[1].outcomes[1])

\* an operation that failed three times with retryable errors was called
\* three times and the error of the third call came out
C13_Witness ==
    /\ call # <<>>
    /\ call[1].fn = "withRetry"
    /\ call[1].config.maxAttempts = 3
    /\ call[1].outcomes = <<"e1", "e1", "e2">>
    /\ call[1].retryable = {"e1", "e2"}
    /\ ret[1].calls = 3
    /\ ~ret[1].ok
    /\ ret[1].error = "e2"

\* C14: the delay slept after failed attempt index k is
\* min(initialDelayMs * backoffMultiplier^k, maxDelayMs), and a call that
\* made c calls of the operation slept exactly c - 1 times: never after the
\* last attempt nor after a failure that is not retried.
C14_BackoffDelays ==
    (call # <<>> /\ call[1].fn = "withRetry"
        /\ call[1].config.maxAttempts >= 1) =>
        /\ Len(ret[1].delays) = ret[1].calls - 1
        /\ \A k \in 0..(Len(ret[1].delays) - 1) :
              LET grown == call[1].config.initialDelayMs
                              * Pow(call[1].config.backoffMultiplier, k)
              IN  /\ ret[1].delays[k + 1] <= grown
                  /\ ret[1].delays[k + 1] <= call[1].config.maxDelayMs
                  /\ ret[1].delays[k + 1]
                        \in {grown, call[1].config.maxDelayMs}

\* three calls, two sleeps, the second of them cut down to maxDelayMs
C14_Witness ==
    /\ call # <<>>
    /\ call[1].fn = "withRetry"
    /\ ret[1].calls = 3
    /\ ~ret[1].ok
    /\ call[1].config.initialDelayMs = 1000
    /\ call[1].config.backoffMultiplier = 3
    /\ call[1].config.maxDelayMs = 2000
    /\ ret[1].delays = <<1000, 2000>>

\* ------------------------------------------------------------- the store

\* the call at hand is fn, and the store answered its read
ReadBy(fn) == call # <<>> /\ call[1].fn = fn /\ call[1].readOk

\* C15: getCache after saveCache(text, description), with no other write in
\* between and the store answering, returns exactly the written pair while
\* less than 300 seconds have passed since the write, and null from then
\* on; an entry it returns is never 300 seconds old.
C15_CacheRoundTrip ==
    /\ (ReadBy("getCache") /\ kvCache # <<>> /\ kvCache[1].written # <<>>) =>
          IF kvCache[1].age < 300
          THEN ret[1].value = kvCache[1].written
          ELSE ret[1].value = <<>>
    /\ (call # <<>> /\ call[1].fn = "getCache" /\ ret[1].value # <<>>) =>
          (kvCache # <<>> /\ kvCache[1].age < 300)

\* a pair with an empty sheetInfo came back 150 seconds after it was saved
C15_Witness ==
    /\ ReadBy("getCache")
    /\ kvCache # <<>>
    /\ kvCache[1].written # <<>>
    /\ kvCache[1].age = 150
    /\ ret[1].value =
          <<[sheetInfo |-> <<>>, description |-> SheetData.description]>>

\* the stored items of chat_history that are objects with a string role and
\* a string text, by their positions
ValidPositions ==
    {i \in DOMAIN kvHistory[1].value.array :
        LET h == kvHistory[1].value.array[i] IN
        /\ "object" \in DOMAIN h
        /\ {"role", "text"} \subseteq DOMAIN h.object
        /\ "string" \in DOMAIN h.object.role
        /\ "string" \in DOMAIN h.object.text}

\* the position of the j-th of them
NthValid(j) ==
    CHOOSE i \in ValidPositions :
        Cardinality({k \in ValidPositions : k <= i}) = j

\* C16: getHistory within the TTL after saveHistory(X) returns X projected
\* to {role, text} in the same order, the stored items holding no other
\* field; from a stored array that mixes valid and malformed items it
\* returns the valid ones, projected, in their original relative order.
C16_HistoryRoundTrip ==
    (ReadBy("getHistory") /\ kvHistory # <<>> /\ kvHistory[1].age < 300) =>
        /\ kvHistory[1].written # <<>> =>
              LET X == kvHistory[1].written[1] IN
              /\ Len(ret[1].value) = Len(X)
              /\ \A i \in DOMAIN X :
                    /\ ret[1].value[i] =
                          [role |-> X[i].role, text |-> X[i].text]
                    /\ DOMAIN kvHistory[1].value.array[i].object =
                          {"role", "text"}
        /\ "array" \in DOMAIN kvHistory[1].value =>
              /\ Len(ret[1].value) = Cardinality(ValidPositions)
              /\ \A j \in DOMAIN ret[1].value :
                    LET h == kvHistory[1].value.array[NthValid(j)].object IN
                    ret[1].value[j] =
                       [role |-> h.role.string, text |-> h.text.string]

\* a history saved with a timestamp on its first entry came back without it
C16_Witness ==
    /\ ReadBy("getHistory")
    /\ kvHistory # <<>>
    /\ kvHistory[1].age = 150
    /\ kvHistory[1].written = <<<<TimestampedEntry,
                                   ModelEntry(Str("old_resp", 40))>>>>
    /\ ret[1].value = <<[role |-> "user", text |-> Str("old_message", 5)],
                        ModelEntry(Str("old_resp", 40))>>

\* C17: the reads of the store never throw. getCache returns null or an
\* object whose sheetInfo and description are strings, getHistory a sequence
\* of {role, text} entries; an absent or expired key, a text that does not
\* parse, a history that is no array, a cache field of another type and a
\* failing read all give null / the empty sequence.
C17_ReadsNeverThrow ==
    /\ (call # <<>> /\ call[1].fn = "getCache") =>
          /\ ~ret[1].threw
          /\ ret[1].value # <<>> =>
                /\ {"sheetInfo", "description"} \subseteq
                      DOMAIN kvCache[1].value.object
                /\ \A k \in {"sheetInfo", "description"} :
                      /\ "string" \in DOMAIN kvCache[1].value.object[k]
                      /\ ret[1].value[1][k] =
                            kvCache[1].value.object[k].string
          /\ (\/ ~call[1].readOk
              \/ kvCache = <<>>
              \/ kvCache[1].age >= 300
              \/ kvCache[1].value = Unparseable
              \/ "object" \notin DOMAIN kvCache[1].value
              \/ \E k \in {"sheetInfo", "description"} :
                    \/ k \notin DOMAIN kvCache[1].value.object
                    \/ "string" \notin DOMAIN kvCache[1].value.object[k])
                => ret[1].value = <<>>
    /\ (call # <<>> /\ call[1].fn = "getHistory") =>
          /\ ~ret[1].threw
          /\ \A i \in DOMAIN ret[1].value :
                DOMAIN ret[1].value[i] = {"role", "text"}
          /\ (\/ ~call[1].readOk
              \/ kvHistory = <<>>
              \/ kvHistory[1].age >= 300
              \/ kvHistory[1].value = Unparseable
              \/ "array" \notin DOMAIN kvHistory[1].value)
                => ret[1].value = <<>>

\* getCache met an object whose sheetInfo is a number and returned null
C17_Witness ==
    /\ ReadBy("getCache")
    /\ kvCache # <<>>
    /\ kvCache[1].age < 300
    /\ "object" \in DOMAIN kvCache[1].value
    /\ "sheetInfo" \in DOMAIN kvCache[1].value.object
    /\ "number" \in DOMAIN kvCache[1].value.object.sheetInfo
    /\ ~ret[1].threw
    /\ ret[1].value = <<>>

\* ------------------------------------------------------ getSheetDataStep

\* a step in which the body of getSheetDataStep runs
SheetStep == pc = "getSheetData" /\ trace' # trace

\* the body returned
SheetStepReturned ==
    SheetStep /\ trace'[Len(trace')] = Event("getSheetData", "return")

\* C18: when the cache read returns an entry, getSheetDataStep returns it
\* with fromCache = true and neither fetches nor writes the cache; when the
\* read misses it fetches exactly once, attempts exactly one cache write with
\* the fetched pair and returns that pair with fromCache = false.
C18_CacheHitOrFetchOnce ==
    [][/\ (SheetStep /\ getCache(TRUE) # <<>> /\ ~faults') =>
             (SheetStepReturned /\ sheetData'[1].fromCache)
       /\ (SheetStepReturned /\ sheetData'[1].fromCache) =>
             /\ getCache(TRUE) # <<>>
             /\ sheetData'[1].sheetInfo = getCache(TRUE)[1].sheetInfo
             /\ sheetData'[1].description = getCache(TRUE)[1].description
             /\ obs'.fetches = obs.fetches
             /\ obs'.cacheWrites = obs.cacheWrites
             /\ kvCache' = kvCache
       /\ (SheetStepReturned /\ ~sheetData'[1].fromCache) =>
             /\ obs'.fetches = obs.fetches + 1
             /\ obs'.cacheWrites = obs.cacheWrites + 1
             /\ sheetData'[1].sheetInfo = SheetData.sheetInfo
             /\ sheetData'[1].description = SheetData.description
             /\ kvCache' \in {kvCache, CachedSheetData}
             /\ obs'.cacheWriteFailures = obs.cacheWriteFailures =>
                   (getCache(TRUE))' = <<SheetData>>
       /\ (SheetStep /\ getCache(TRUE) = <<>>) =>
             obs'.fetches = obs.fetches + 1
      ]_vars

\* one run took its data from the cache without fetching
C18_Witness ==
    /\ pc = "done"
    /\ sheetData[1].fromCache
    /\ obs.fetches = 0
    /\ obs.cacheWrites = 0
    /\ getCache(TRUE) = <<SheetData>>

\* C19: a cache write that fails after a successful fetch is not fatal:
\* getSheetDataStep still returns the fetched data with fromCache = false
\* and the run goes on to step 2.
C19_FailedCacheWriteIsNonFatal ==
    [][(SheetStep /\ obs'.cacheWriteFailures = obs.cacheWriteFailures + 1) =>
          /\ SheetStepReturned
          /\ sheetData' = <<[sheetInfo |-> SheetData.sheetInfo,
                             description |-> SheetData.description,
                             fromCache |-> FALSE]>>
          /\ pc' = "getHistory"
          /\ errorMessage' = errorMessage
          /\ kvCache' = kvCache
      ]_vars

\* a run whose cache write failed went through to its end with the fetched
\* data and an empty cache
C19_Witness ==
    /\ pc = "done"
    /\ obs.cacheWriteFailures = 1
    /\ obs.fetches = 1
    /\ ~sheetData[1].fromCache
    /\ kvCache = <<>>
    /\ posted = <<>>

\* ------------------------------------------------- two runs side by side

\* the entries run r adds to the history it loaded
NewEntries(r) == <<UserEntry(MessageOf(r)), ModelEntry(ResponseOf(r))>>

\* both runs ended with a put that went through, after each had loaded the
\* history before any save
OverlappingRunsSaved ==
    \A r \in RunIds :
        /\ runs[r].pc = "done"
        /\ runs[r].saveIndex > 0
        /\ runs[r].savesSeen = 0

\* C20: when two runs both load the history before either saves, the
\* history persisted after both have saved is exactly the updatedHistory of
\* the run whose save went last: the history both loaded and that run's
\* own exchange, with nothing of the run that saved first.
C20_LastSaveWins ==
    OverlappingRunsSaved =>
        \A last \in RunIds, first \in RunIds :
            (runs[last].saveIndex = 2 /\ runs[first].saveIndex = 1) =>
                /\ getHistory(TRUE) = runs[last].updatedHistory
                /\ runs[last].updatedHistory =
                      runs[last].history \o NewEntries(last)
                /\ \A i \in DOMAIN getHistory(TRUE) :
                      /\ getHistory(TRUE)[i] # NewEntries(first)[1]
                      /\ getHistory(TRUE)[i] # NewEntries(first)[2]

\* run B saved first and run A last, both having loaded the old history:
\* the store holds the old history and the exchange of A alone
C20_Witness ==
    /\ OverlappingRunsSaved
    /\ runs["B"].saveIndex = 1
    /\ runs["A"].saveIndex = 2
    /\ runs["A"].history = OldHistory
    /\ runs["B"].history = OldHistory
    /\ getHistory(TRUE) = OldHistory \o NewEntries("A")

\* ------------------------------------------- the cache across two runs

\* a step in which some run calls getSheetData or saveCache
FetchOrCacheWrite ==
    \E r \in RunIds :
        \/ runs'[r].fetches > runs[r].fetches
        \/ runs'[r].cacheWrites > runs[r].cacheWrites

\* C21 as stated: while a fresh cache entry is present no run fetches from
\* the reference source or rewrites the cache key.
C21_Original_NoFetchWhileFresh ==
    [][FetchOrCacheWrite => getCache(TRUE) = <<>>]_vars

\* C21: a run whose cache read returned an entry neither fetches nor writes
\* the cache key; a run whose read returned null (key absent or expired, or
\* the read failed) fetches once and writes once, whatever other runs have
\* written in the meantime, so runs that overlap can each write the key.
C21_FetchOnlyAfterOwnMiss ==
    \A r \in RunIds :
        /\ runs[r].cache # <<>> =>
              (runs[r].fetches = 0 /\ runs[r].cacheWrites = 0)
        /\ runs[r].fetches <= 1
        /\ runs[r].cacheWrites <= runs[r].fetches
        /\ (runs[r].cache = <<>>
            /\ runs[r].pc \in {"getHistory", "streamGeminiAndEditDiscord",
                               "saveHistory", "done"}) =>
              (runs[r].fetches = 1 /\ runs[r].cacheWrites = 1)

\* run A read the cache it found and left it alone; run B, whose read
\* failed, fetched and wrote the key over the fresh entry
C21_Witness ==
    /\ runs["A"].pc = "done"
    /\ runs["A"].cache = <<SheetData>>
    /\ runs["A"].fetches = 0
    /\ runs["B"].pc = "done"
    /\ runs["B"].cache = <<>>
    /\ runs["B"].cacheWrites = 1
    /\ getCache(TRUE) = <<SheetData>>

\* ------------------------------------------------- the inbound request

\* the handler takes up a request
PostStep == call = <<>> /\ call' # <<>> /\ call'[1].fn = "post"

\* the request is an APPLICATION_COMMAND whose first option value is a
\* string with a character that is no whitespace
Admitted(body) ==
    /\ body.type = "APPLICATION_COMMAND"
    /\ body.data # <<>>
    /\ "array" \in DOMAIN body.data[1].options
    /\ Len(body.data[1].options.array) >= 1
    /\ LET first == body.data[1].options.array[1] IN
       /\ "object" \in DOMAIN first
       /\ "value" \in DOMAIN first.object
       /\ "string" \in DOMAIN first.object.value
       /\ \E i \in DOMAIN first.object.value.string :
             first.object.value.string[i].src # "space"

\* the runs that exist
Created == {r \in RunIds : runs[r].pc # "idle"}

\* C22: the handler calls for a run exactly when the request is an
\* APPLICATION_COMMAND whose first option value is a string that is not
\* empty after trimming. A PING gets PONG; missing data, missing or empty
\* options, a blank question and an unknown type get an error response at
\* once; none of them creates a run. The deferred acknowledgment is returned
\* only after the creation succeeded, and a creation that fails gives an
\* error response and no run.
C22_RunCreatedIffAdmitted ==
    [][/\ PostStep =>
             LET body == call'[1].body IN
             /\ (Created' # Created) <=>
                   (Admitted(body) /\ call'[1].createOk)
             /\ Cardinality(Created') <= Cardinality(Created) + 1
             /\ Created' # Created =>
                   /\ call'[1].run \in Created' \ Created
                   /\ ret' = <<>>
                   /\ runs'[call'[1].run].message # <<>>
                   /\ runs'[call'[1].run].message[1].src # "space"
             /\ body.type = "PING" =>
                   (ret' # <<>> /\ ret'[1].kind = "PONG")
             /\ (body.type # "PING" /\ ~Admitted(body)) =>
                   (ret' # <<>> /\ ret'[1].kind = "error"
                      /\ ret'[1].description
                            \in {ErrMissingData, ErrMissingOptions,
                                 ErrQuestion, ErrInteractionType})
             /\ (Admitted(body) /\ ~call'[1].createOk) =>
                   (ret' # <<>> /\ ret'[1] = requestFailed(ErrStart))
       /\ (ret' # ret /\ ret' # <<>>
           /\ ret'[1].kind = "DEFERRED_CHANNEL_MESSAGE_WITH_SOURCE") =>
             /\ Admitted(call[1].body)
             /\ call[1].createOk
             /\ call[1].run \in Created
             /\ Created' = Created
      ]_vars

\* a question with whitespace around it was acknowledged, its run holding
\* the question without the whitespace; the other run does not exist
C22_Witness ==
    /\ call # <<>>
    /\ call[1].fn = "post"
    /\ call[1].run = "A"
    /\ ret # <<>>
    /\ ret[1].kind = "DEFERRED_CHANNEL_MESSAGE_WITH_SOURCE"
    /\ call[1].body.data[1].options.array[1].object.value.string
          = PaddedMessage
    /\ runs["A"].message = Message
    /\ Created = {"A"}

C24_SameFingerprint ==
    (call # <<>> /\ call[1].fn = "generateFingerprint")
        => ret[1].a = ret[1].b

\* a thinking chunk that passes both gates of the thinking phase
ThinkingGatePassed ==
    /\ ChunkStep
    /\ currentPhase' = "thinking"
    /\ now' - lastEditTime >= THINKING_EDIT_INTERVAL_MS
    /\ StrLen(accumulatedThinking') - lastThinkingEditLength
          >= THINKING_MIN_CHUNK_SIZE

\* C25: a failure of the summarizer never reaches the stream: when the
\* summarizer call throws or returns empty text during a thinking-phase
\* emission, the thinking edit is issued all the same and shows the fixed
\* fallback phrase after the thinking marker, and the step goes on
\* consuming chunks.
C25_SummarizerFailureFallsBack ==
    [][/\ ThinkingGatePassed =>
             /\ Len(edit') = 1
             /\ edit'[1].kind = "thinking"
             /\ obs'.edits = obs.edits + 1
       /\ (ChunkStep /\ Len(edit') = 1
              /\ edit'[1].summarizer \in {"empty", "throw"}) =>
             /\ ThinkingGatePassed
             /\ edit'[1].content =
                    formatThinkingContent(Message, THINKING_FALLBACK)
             /\ pc' = "streaming"
             /\ stepTries' = stepTries
             /\ errorMessage' = errorMessage
             /\ fullText' = fullText
      ]_vars

\* the summarizer threw for the second thinking edit of the stream, and the
\* edit with the fallback phrase has been applied
C25_Witness ==
    /\ pc = "streaming"
    /\ chunks = 2
    /\ editCount = 2
    /\ Len(edit) = 1
    /\ edit[1].summarizer = "throw"
    /\ edit[1].ok
    /\ HasSrc(edit[1].content, "fallback")

\* C26: once the first response chunk of a stream has been processed, the
\* message never shows a thinking summary again: in every later state of
\* the stream the last applied edit carries no thinking marker, whatever
\* the chunks and whichever edits fail.
C26_NoThinkingShownAfterResponse ==
    (pc \in {"streaming", "returning"} /\ obs.responseSeen)
        => obs.shown # "thinking"

\* C27: for a chunk that is not the forced phase transition, an edit is
\* issued if and only if the time since the last applied edit is at least
\* the phase's interval and the characters accumulated in the phase since
\* its last applied edit are at least the phase's minimum, with 1500 ms and
\* 50 characters for the response phase and 1000 ms and 200 characters for
\* the thinking phase; a thinking edit shows, behind the thinking marker, a
\* summary of all the thinking text accumulated so far, and a response edit
\* shows the response text so far.
C27_GateDecidesEdit ==
    [][(ChunkStep /\ ~(currentPhase = "thinking" /\ currentPhase' = "response"))
          => LET thinking == currentPhase' = "thinking"
                 elapsed == now' - lastEditTime
                 newChars ==
                     IF thinking
                     THEN StrLen(accumulatedThinking') - lastThinkingEditLength
                     ELSE StrLen(fullText') - lastResponseEditLength
                 gate == IF thinking
                         THEN elapsed >= 1000 /\ newChars >= 200
                         ELSE elapsed >= 1500 /\ newChars >= 50
             IN  /\ Len(edit') = (IF gate THEN 1 ELSE 0)
                 /\ obs'.edits = obs.edits + Len(edit')
                 /\ (gate /\ thinking) =>
                        /\ edit'[1].kind = "thinking"
                        /\ ~edit'[1].forced
                        /\ edit'[1].content \in
                              {Cat(QuestionThen(Str("thought_balloon", 17)),
                                   summary) :
                                 summary \in {SummaryOf(accumulatedThinking'),
                                              THINKING_FALLBACK}}
                 /\ (gate /\ ~thinking) =>
                        /\ edit'[1].kind = "response"
                        /\ ~edit'[1].forced
                        /\ edit'[1].content = QuestionThen(fullText')
                        /\ NoThinkingIn(edit'[1].content)
      ]_vars

\* a response edit issued by the gate, after the forced one was applied:
\* 1500 ms and 50 characters later
C27_Witness ==
    /\ pc = "streaming"
    /\ chunks = 2
    /\ editCount = 2
    /\ Len(edit) = 1
    /\ edit[1].kind = "response" /\ ~edit[1].forced /\ edit[1].ok
    /\ now = StartTime + DISCORD_EDIT_INTERVAL_MS
    /\ StrLen(fullText) = 2 * MIN_CHUNK_SIZE

\* C28: the phase of the throttle only moves forward: after the first
\* response chunk of a stream it never returns to the thinking phase, and
\* exactly one forced transition edit is issued in a stream that contains a
\* response chunk.
C28_PhaseOnlyForward ==
    (pc \in {"streaming", "returning"} /\ obs.responseSeen)
        => (currentPhase = "response" /\ obs.forcedEdits = 1)

\* C29: any two consecutive edits that the gate issued within one stream,
\* applied or not, are triggered by chunks that arrive at least the phase's
\* edit interval apart: 1000 ms for a thinking edit, 1500 ms for a response
\* edit.
C29_GateEditsAnIntervalApart ==
    [][(ChunkStep /\ Len(edit') = 1 /\ ~edit'[1].forced
           /\ obs.gateEditAt # -1)
          => now' - obs.gateEditAt >=
                (IF edit'[1].kind = "thinking" THEN 1000 ELSE 1500)
      ]_vars

Step3Start == Event("streamGeminiAndEditDiscord", "start")

\* the catch block of run() has been entered: the report or the failure
\* message is under way or done
FailurePathEntered ==
    \/ pc \in {"catch", "reporting", "sendErrorResponse", "failed"}
    \/ obs.reports > 0
    \/ rcount["run"] > 0
    \/ obs.errSteps > 0
    \/ posted # <<>>

\* C30: the body of step 3 is executed at most 3 times in a run, one
\* attempt and at most 2 retries; the error report and the failure message
\* are triggered only after the last of these attempts has thrown or timed
\* out, never while an attempt remains; and the run reports at most once
\* however many attempts failed.
C30_ReportOnlyAfterLastAttempt ==
    /\ Cardinality(Positions(Step3Start)) <= 3
    /\ Cardinality(Positions(Step3Throw)) <= Cardinality(Positions(Step3Start))
    /\ (FailurePathEntered /\ Positions(Step3Start) # {}) =>
          /\ Cardinality(Positions(Step3Start)) = 3
          /\ Cardinality(Positions(Step3Throw)) = 3
    /\ pc \in {"streamGeminiAndEditDiscord", "streaming", "returning"} =>
          /\ obs.reports = 0
          /\ rcount["run"] = 0
          /\ obs.errSteps = 0
          /\ posted = <<>>
    /\ obs.reports <= 1
    /\ rcount["run"] <= 1
    /\ obs.errSteps <= 1

\* the third attempt of step 3 timed out, after which the run reported once
\* and sent the failure message
C30_Witness ==
    /\ pc = "failed"
    /\ errorMessage = ErrTimeout
    /\ Cardinality(Positions(Step3Start)) = 3
    /\ obs.reports = 1
    /\ obs.errSteps = 1
    /\ posted # <<>>

\* C31: sendDiscordResponseStep never throws and makes at most 3 post
\* attempts; it stops at the first post that succeeds and returns success
\* with retryCount the number of failed attempts before it (0, 1 or 2);
\* after 3 failed attempts it returns failure with retryCount 2; and at
\* most one message is posted by an invocation.
C31_BoundedBestEffortDelivery ==
    [][pc = "sendErrorResponse" =>
          LET attempts == obs'.postAttempts - obs.postAttempts
              posts == obs'.posts - obs.posts
              out == posted'[Len(posted')]
          IN  /\ pc' = "failed"
              /\ Len(posted') = Len(posted) + 1
              /\ obs'.errSteps = obs.errSteps + 1
              /\ attempts \in 1..3
              /\ IF out.delivered
                 THEN /\ posts = 1
                      /\ out.retryCount = attempts - 1
                      /\ out.retryCount \in 0..2
                 ELSE /\ posts = 0
                      /\ attempts = 3
                      /\ out.retryCount = 2
      ]_vars

\* the failure message delivered at the third attempt
C31_Witness ==
    /\ pc = "failed"
    /\ Len(posted) = 1
    /\ posted[1].delivered
    /\ posted[1].retryCount = 2
    /\ obs.postAttempts = 3
    /\ obs.posts = 1

\* the attempt of step 3 that runs is left by a throw
AttemptThrows ==
    /\ pc = "streaming"
    /\ pc' \in {"streamGeminiAndEditDiscord", "catch"}

\* C32: askStream changes the history only once the stream has completed
\* with a non-empty response, and then by appending exactly the user entry
\* and the model entry, in this order; when the stream fails before or
\* during iteration, or has yielded only thinking text or nothing, askStream
\* throws and the history is as it was.
C32_HistoryChangesOnlyOnCompletion ==
    [][/\ historyOutput' # historyOutput =>
             /\ pc = "streaming" /\ pc' = "returning"
             /\ obs'.completed
             /\ HasSrc(fullText, "response")
             /\ historyOutput' = historyOutput \o
                   <<[role |-> "user",
                      text |-> Cat(Str("question_prefix", 4), Message)],
                     [role |-> "model", text |-> fullText]>>
       /\ (pc = "streaming" /\ pc' # "streaming"
              /\ ~HasSrc(fullText, "response")) => AttemptThrows
       /\ (pc = "streamGeminiAndEditDiscord" /\ pc' # "streaming") =>
             historyOutput' = historyOutput
       /\ AttemptThrows => historyOutput' = historyOutput
      ]_vars

\* the stream completed after a thinking part and a response part, and the
\* two entries are in the history
C32_Witness ==
    /\ pc = "returning"
    /\ HasSrc(accumulatedThinking, "thinking")
    /\ historyOutput = OldHistory \o
          <<UserEntry(Message), ModelEntry(Str("response", 50))>>

\* C33: when a thinking gate passes and the summarizer call fails, the call
\* is retried through withRetry before the fallback phrase is substituted:
\* an edit shows the fallback after a throwing summarizer only when more
\* than one call was made.
C33_SummarizerRetriedBeforeFallback ==
    (Len(edit) = 1 /\ edit[1].summarizer = "throw")
        => (edit[1].summarizerCalls >= 2
            /\ HasSrc(edit[1].content, "fallback"))

\* the edits that the sink has been sent and has not answered
EditsInFlight ==
    Cardinality({i \in DOMAIN call : call[i].at = "editOriginalMessage"})
        + (IF ret # <<>> /\ ret[1].final = "editOriginalMessage" THEN 1 ELSE 0)

\* C34: within one execution of step 3 the chunk callbacks never overlap: a
\* chunk is handed to the throttle only after the handling of the previous
\* one, its summarizer call and its edit included, has completed; at most
\* one edit is in flight at any time; and the final edit is issued only
\* after every chunk-triggered edit has completed.
C34_CallbacksNeverOverlap ==
    /\ Len(call) <= 1
    /\ EditsInFlight <= 1
    /\ \A i \in DOMAIN call :
          /\ call[i].fn = "onChunk"
          /\ call[i].part = Len(ret[1].parts)
    /\ ret # <<>> =>
          /\ ret[1].final # "none" => call = <<>>
          /\ ret[1].edits + Len(call) =
                Cardinality({k \in DOMAIN ret[1].parts :
                                ret[1].parts[k].edited})

\* the final edit is in flight after a thinking edit and a response edit
\* have both been answered
C34_Witness ==
    /\ ret # <<>>
    /\ ret[1].final = "editOriginalMessage"
    /\ ret[1].edits = 2
    /\ Len(ret[1].parts) = 3
    /\ ret[1].parts[1].phase = "thinking"
    /\ ret[1].parts[3].phase = "response"

\* C35: whenever step 3 succeeds, the updatedHistory it returns is the
\* history loaded at step 2 followed by exactly two entries, the user's
\* question and the model's answer, whatever the number of failed or
\* timed-out attempts before the successful one.
C35_UpdatedHistoryIsLoadedPlusTwo ==
    streamResult # <<>> =>
        streamResult[1].updatedHistory =
            obs.loaded \o <<UserEntry(Message),
                            ModelEntry(streamResult[1].response)>>

\* C36: for reports that do not overlap, once a report has created an issue
\* and written the key error_reported:<fingerprint>, no later report of the
\* fingerprint processed before the key expires searches the tracker or
\* creates an issue: a search or a creation is made only while the key is
\* absent, a report that stops at the key leaves the tracker alone, the key
\* is written for 3600 seconds beside an issue of the fingerprint, and the
\* key goes only by expiring.
C36_OneIssuePerWindow ==
    [][/\ \A r \in Reporters :
             /\ (rlog'[r].searches > rlog[r].searches
                    \/ rlog'[r].creates > rlog[r].creates)
                   => rfp[r] \notin kvReported
             /\ (rpc[r] = "kv_get" /\ rfp[r] \in kvReported) =>
                   /\ rpc'[r] \in {"kv_get", "returned"}
                   /\ issues' = issues
             /\ (rpc[r] = "put" /\ rfp[r] \in kvReported') =>
                   /\ rfp[r] \in issues'
                   /\ rlog'[r].ttl = 3600
       /\ ~(kvReported \subseteq kvReported') => rpc' = rpc
      ]_vars

\* a report has created the issue and written the key, and the next report
\* of the same fingerprint has stopped at the key
C36_Witness ==
    /\ rpc["run2"] = "returned"
    /\ rlog["run2"].hit
    /\ rlog["run2"].searches = 0
    /\ rfp["run2"] \in issues
    /\ rfp["run2"] \in kvReported
    /\ rcount["run"] = 1
    /\ rpc["run"] = "idle"

\* C37: when two runs fail at the same time with messages of one fingerprint,
\* and neither an issue nor a key of it was there before, at most one issue
\* is created for the fingerprint, however their two pipelines interleave:
\* the first reports of the two runs, whose searches were both answered,
\* never both create an issue.
C37_ConcurrentReportsOneIssue ==
    (/\ rcount = [run |-> 1, run2 |-> 1, health |-> 0]
     /\ ~rlog["run"].searchErr
     /\ ~rlog["run2"].searchErr
     /\ rfp["run"] # <<>>
     /\ rfp["run"] = rfp["run2"])
    => ~(rlog["run"].created /\ rlog["run2"].created)

\* C38: the two outcomes a user can see exclude each other in every run:
\* when the final edit carrying the whole answer has been issued, no failure
\* message is posted in that run.
C38_AnswerOrFailureMessage ==
    ~(obs.finalEdits > 0 /\ obs.posts > 0)

\* C39: the editCount step 3 returns is the number of edits of the sink that
\* succeeded in the attempt that returned, the final edit included: an
\* attempt starts counting at 0, every step of the attempt raises editCount
\* by one exactly when it has sent an edit and the edit succeeded, and the
\* step returns the count it has reached.
C39_EditCountIsSuccessfulEdits ==
    [][/\ (pc # "streaming" /\ pc' = "streaming") => editCount' = 0
       /\ (pc = "streaming" /\ pc' \in {"streaming", "returning"}) =>
             editCount' - editCount =
                IF obs'.edits > obs.edits /\ edit'[1].ok THEN 1 ELSE 0
       /\ (pc = "returning" /\ streamResult' # streamResult) =>
             streamResult'[1].editCount = editCount
      ]_vars

====
